---- MODULE Spec2Model ----
(***************************************************************************)
(* Offline voice assistant: session state machine (core/recognizer.py,     *)
(* core/handlers.py), Auth Gate (utils/auth/), and the single-instance     *)
(* background schedulers (utils/alarm_thread.py, utils/timer_thread.py,    *)
(* utils/notice_thread.py).                                                *)
(*                                                                         *)
(* Text is modelled as a sequence of tokens.  Tokens are ASCII             *)
(* transliterations of the Devanagari words of the source:                 *)
(*   namaste = WAKE_WORD, dhanyavaad = EXIT_WORD, samay, aaj, volume,      *)
(*   badhao, timer, minute, das (10), lagao, band, kitna, kab, plus,       *)
(*   paanch (5), notice, yaad, baad, baje, alarm, jagana, saat (7), shaam, *)
(*   ek do teen char (1 2 3 4), aa (a one-letter noise token), hmm (a word *)
(*   outside every vocabulary); one / ONE is the English digit word.       *)
(* "kw in text" of the source is token membership: no word of the          *)
(* vocabulary is a substring of another one.                               *)
(* Times are whole seconds; confidences and similarity scores are          *)
(* hundredths.                                                             *)
(***************************************************************************)
EXTENDS Integers, Sequences, FiniteSets, TLC

\* ------------------------------------------------------------------ bounds
MaxClock == 16
MaxBlocks == 2
MaxPinTokens == 4
MaxRecorders == 1
MaxTimers == 2
MaxNow == 3
MaxNotices == 2
MaxNoticeNow == 16
MaxAlarmSets == 2
MaxAlarmNow == 125

\* ------------------------------------------------------- program constants
PIN_PROMPT_TIMEOUT == 15
SAMPLE_RATE == 16000
ASR_CONFIDENCE_THRESHOLD == 65
ASR_MIN_WORD_LENGTH == 3
VOICE_AUTH_THRESHOLD == 60
WAKE_WORD == "namaste"
EXIT_WORD == "dhanyavaad"
RAW_PIN == <<1, 2, 3, 4>>

\* -------------------------------------------------------------- text helpers
Has(text, kw) == \E i \in DOMAIN text : text[i] = kw

HasAny(text, kws) == \E i \in DOMAIN text : text[i] \in kws

\* len(tok) in Unicode code points of the Devanagari original
TokLen(tok) ==
    CASE tok = "aa" -> 1
      [] tok \in {"ek", "do", "das", "kab", "aaj", "ka"} -> 2
      [] tok \in {"1", "2", "3", "4"} -> 1
      [] tok \in {"12", "34"} -> 2
      [] OTHER -> 3

\* str.isdigit() and the digits of a numeral token
IsDigitTok(tok) == tok \in {"1", "2", "3", "4", "12", "34", "1234", "0", "9"}

DigitsOfTok(tok) ==
    CASE tok = "0" -> <<0>>
      [] tok = "1" -> <<1>>
      [] tok = "2" -> <<2>>
      [] tok = "3" -> <<3>>
      [] tok = "4" -> <<4>>
      [] tok = "9" -> <<9>>
      [] tok = "12" -> <<1, 2>>
      [] tok = "34" -> <<3, 4>>
      [] tok = "1234" -> <<1, 2, 3, 4>>
      [] OTHER -> <<>>

\* str.lower(): the only upper-case token of the vocabulary
Lower(tok) == IF tok = "ONE" THEN "one" ELSE tok

LowerText(text) == [i \in DOMAIN text |-> Lower(text[i])]

\* ------------------------------------------------------- utils/constants.py
HINDI_PIN_WORDS ==
    [tok \in {"shunya", "ek", "one", "do", "teen", "char", "paanch", "saat",
              "nau"} |->
        CASE tok = "shunya" -> 0
          [] tok \in {"ek", "one"} -> 1
          [] tok = "do" -> 2
          [] tok = "teen" -> 3
          [] tok = "char" -> 4
          [] tok = "paanch" -> 5
          [] tok = "saat" -> 7
          [] tok = "nau" -> 9]

\* ------------------------------------------------- utils/auth/pin_auth.py
\* SHA-256 of the digit string, modelled as the tagged digit sequence:
\* distinct strings have distinct digests
hash_pin(pin) == <<"sha256">> \o pin

AUTH_PIN_HASH == hash_pin(RAW_PIN)

\* the loop of verify_pin: pin_digits after the tokens from index i on
RECURSIVE PinDigitsFrom(_, _, _)
PinDigitsFrom(tokens, i, pin_digits) ==
    IF i > Len(tokens) THEN pin_digits
    ELSE IF tokens[i] \in DOMAIN HINDI_PIN_WORDS
         THEN PinDigitsFrom(tokens, i + 1,
                            Append(pin_digits, HINDI_PIN_WORDS[tokens[i]]))
         ELSE IF IsDigitTok(tokens[i])
              THEN PinDigitsFrom(tokens, i + 1, pin_digits \o DigitsOfTok(tokens[i]))
              ELSE PinDigitsFrom(tokens, i + 1, pin_digits)

verify_pin_strict(spoken_text) ==
    LET tokens == LowerText(spoken_text)
        pin_digits == PinDigitsFrom(tokens, 1, <<>>)
    IN  IF pin_digits = <<>> THEN FALSE
        ELSE IF \E i \in DOMAIN tokens :
                    tokens[i] \notin DOMAIN HINDI_PIN_WORDS /\ ~IsDigitTok(tokens[i])
        THEN FALSE
        ELSE hash_pin(pin_digits) = AUTH_PIN_HASH

verify_pin(spoken_text) ==
    LET tokens == LowerText(spoken_text)
        pin_digits == PinDigitsFrom(tokens, 1, <<>>)
    IN  IF pin_digits = <<>> THEN FALSE
        ELSE hash_pin(pin_digits) = AUTH_PIN_HASH

\* --------------------------------------------- utils/auth/voice_auth.py
\* env is what the voice check meets outside the program: whether
\* python_speech_features imported (mfcc), whether the profile file exists
\* (profile), and the cosine similarity of the extracted sample (score).
\* audio is a sample count; -1 stands for "no array" (None).
NoAudio == -1

MinSamples == SAMPLE_RATE \div 2

Scores == {45, 60}

\* the profile is not read without the library, nor the score without the
\* profile: what is not read is left at its first value
VoiceEnvs ==
    {e \in [mfcc : BOOLEAN, profile : BOOLEAN, score : Scores] :
        /\ ~e.mfcc => ~e.profile
        /\ ~e.profile => e.score = 45}

verify_voice_from_audio_no_minimum(audio, env) ==
    IF ~env.mfcc THEN [ok |-> TRUE, calls |-> <<"verify_voice_from_audio">>]
    ELSE IF ~env.profile
         THEN [ok |-> TRUE,
               calls |-> <<"verify_voice_from_audio", "load_voice_profile">>]
         ELSE [ok |-> env.score >= VOICE_AUTH_THRESHOLD,
               calls |-> <<"verify_voice_from_audio", "load_voice_profile",
                           "_extract_mfcc", "_cosine_similarity">>]

verify_voice_from_audio(audio, env) ==
    IF ~env.mfcc THEN [ok |-> TRUE, calls |-> <<"verify_voice_from_audio">>]
    ELSE IF ~env.profile
         THEN [ok |-> TRUE,
               calls |-> <<"verify_voice_from_audio", "load_voice_profile">>]
         ELSE IF audio < MinSamples
              THEN [ok |-> TRUE,
                    calls |-> <<"verify_voice_from_audio", "load_voice_profile">>]
              ELSE [ok |-> env.score >= VOICE_AUTH_THRESHOLD,
                    calls |-> <<"verify_voice_from_audio", "load_voice_profile",
                                "_extract_mfcc", "_cosine_similarity">>]

verify_voice(env) ==
    IF ~env.mfcc THEN [ok |-> TRUE, calls |-> <<"verify_voice">>]
    ELSE IF ~env.profile
         THEN [ok |-> TRUE, calls |-> <<"verify_voice", "load_voice_profile">>]
         ELSE [ok |-> env.score >= VOICE_AUTH_THRESHOLD,
               calls |-> <<"verify_voice", "load_voice_profile", "_record_audio",
                           "_extract_mfcc", "_cosine_similarity">>]

\* ------------------------------------------------ utils/auth/__init__.py
\* The package utils/auth/ shadows the module utils/auth.py, so this is the
\* authenticate_user that "from utils.auth import authenticate_user" binds.
authenticate_user_voice_first(spoken_pin, check_voice, audio, env) ==
    LET pin_ok == verify_pin(spoken_pin)
        voice  == IF audio # NoAudio /\ audio > 0
                  THEN verify_voice_from_audio(audio, env)
                  ELSE verify_voice(env)
        voice_ok == IF check_voice THEN voice.ok ELSE TRUE
        calls  == IF check_voice THEN voice.calls \o <<"verify_pin">>
                  ELSE <<"verify_pin">>
    IN  IF ~pin_ok
        THEN [pin_ok |-> FALSE, voice_ok |-> voice_ok, authorized |-> FALSE,
              reason |-> "wrong_pin", calls |-> calls]
        ELSE [pin_ok |-> TRUE, voice_ok |-> voice_ok, authorized |-> TRUE,
              reason |-> "success", calls |-> calls]

authenticate_user(spoken_pin, check_voice, audio, env) ==
    LET pin_ok == verify_pin(spoken_pin)
        voice  == IF audio # NoAudio /\ audio > 0
                  THEN verify_voice_from_audio(audio, env)
                  ELSE verify_voice(env)
    IN  IF ~pin_ok
        THEN [pin_ok |-> FALSE, voice_ok |-> FALSE, authorized |-> FALSE,
              reason |-> "wrong_pin", calls |-> <<"verify_pin">>]
        ELSE IF check_voice
             THEN [pin_ok |-> TRUE, voice_ok |-> voice.ok, authorized |-> TRUE,
                   reason |-> "success", calls |-> <<"verify_pin">> \o voice.calls]
             ELSE [pin_ok |-> TRUE, voice_ok |-> TRUE, authorized |-> TRUE,
                   reason |-> "success", calls |-> <<"verify_pin">>]

\* ----------------------------------------------------------- variables
VARIABLES
    state,             \* core/recognizer.py _state
    assistant_ctx,     \* core/handlers.py assistant_ctx
    pin_audio_buffer,  \* core/recognizer.py _pin_audio_buffer (sample counts)
    alarm_time,        \* utils/alarm_thread.py _alarm_time, <<>> is None
    clock,             \* time.time() / time.monotonic(), in seconds
    effects,           \* what the last callback spoke and called, in order
    auth,              \* <<>> or <<the AuthResult of the last callback>>
    recorders,         \* NoticeRecorder threads that have not finished yet
    call,              \* arguments of a stand-alone authenticate_user call
    timer_workers,     \* utils/timer_thread.py: the TimerWorker threads made
    timer_events,      \* the threading.Event objects that are set
    timer_thread,      \* _timer_thread: index of the thread, 0 is None
    timer_cancel_event, \* _cancel_event: index of the event
    timer_state,       \* _start_time, _duration, and the worker that wrote them
    fg,                \* the conversation thread inside a scheduler call
    answer,            \* what the last scheduler query returned
    notice_recorders,  \* core/handlers.py: the NoticeRecorder threads made
    notice_workers,    \* utils/notice_thread.py: the NoticeWorker threads made
    notice_events,     \* the threading.Event objects that are set
    notice_thread,     \* _notice_thread: index of the thread, 0 is None
    notice_cancel_event, \* _cancel_event: index of the event
    notice_state,      \* _notice_file, _notice_eta, _notice_label
    notice_files,      \* the temporary WAV files that exist
    alarm_checker,     \* utils/alarm_thread.py: the AlarmChecker thread
    alarm_log,         \* how often set_alarm was called and the alarm rang
    heard,             \* the text handle_active_command is called with
    locks              \* the _lock of each scheduler and where each thread is

timerVars == <<timer_workers, timer_events, timer_thread, timer_cancel_event,
               timer_state, fg, answer>>

noticeVars == <<notice_recorders, notice_workers, notice_events, notice_thread,
                notice_cancel_event, notice_state, notice_files>>

alarmVars == <<alarm_checker, alarm_log>>

routeVars == <<heard>>

lockVars == <<locks>>

\* what the session and the Auth Gate leave alone
backgroundVars == <<timerVars, noticeVars, alarmVars, routeVars, lockVars>>

vars == <<state, assistant_ctx, pin_audio_buffer, alarm_time, clock, effects,
          auth, recorders, call, timer_workers, timer_events, timer_thread,
          timer_cancel_event, timer_state, fg, answer, notice_recorders,
          notice_workers, notice_events, notice_thread, notice_cancel_event,
          notice_state, notice_files, alarm_checker, alarm_log, heard, locks>>

\* ----------------------------------------------------------- effects
Speak(msg) == [op |-> "speak", arg |-> msg, n |-> 0]

Call(fn, n) == [op |-> "call", arg |-> fn, n |-> n]

\* first index of a token satisfying a test, 0 if none
RECURSIVE FirstIn(_, _, _)
FirstIn(tokens, i, toks) ==
    IF i > Len(tokens) THEN 0
    ELSE IF tokens[i] \in toks THEN i ELSE FirstIn(tokens, i + 1, toks)

\* ------------------------------------------------ intents/timer_intent.py
NumberWords ==
    [tok \in {"shunya", "ek", "do", "teen", "char", "paanch", "saat", "das"} |->
        CASE tok = "shunya" -> 0
          [] tok = "ek" -> 1
          [] tok = "do" -> 2
          [] tok = "teen" -> 3
          [] tok = "char" -> 4
          [] tok = "paanch" -> 5
          [] tok = "saat" -> 7
          [] tok = "das" -> 10]

DigitTokValue(tok) ==
    CASE tok = "0" -> 0
      [] tok = "1" -> 1
      [] tok = "2" -> 2
      [] tok = "3" -> 3
      [] tok = "4" -> 4
      [] tok = "9" -> 9
      [] tok = "12" -> 12
      [] tok = "34" -> 34
      [] OTHER -> 1234

IsNumberTok(tok) == IsDigitTok(tok) \/ tok \in DOMAIN NumberWords

word_to_num(tok) == IF IsDigitTok(tok) THEN DigitTokValue(tok) ELSE NumberWords[tok]

SECOND_WORDS == {"second"}
MINUTE_WORDS == {"minute"}
HOUR_WORDS == {"ghante"}
UnitWords == SECOND_WORDS \cup MINUTE_WORDS \cup HOUR_WORDS
TIMER_START_WORDS == {"lagao", "set", "shuru"}
TIMER_CANCEL_WORDS == {"band", "cancel", "roko"}
TIMER_STATUS_WORDS == {"kitna", "baaki", "batao"}
STRONG_TIMER == {"timer"}
WEAK_TIMER == {"taim"}

classify_unit(tok) ==
    CASE tok \in SECOND_WORDS -> "second"
      [] tok \in MINUTE_WORDS -> "minute"
      [] tok \in HOUR_WORDS -> "hour"
      [] OTHER -> "none"

to_seconds(value, unit) ==
    CASE unit = "second" -> value
      [] unit = "minute" -> value * 60
      [] unit = "hour" -> value * 3600
      [] OTHER -> value * 60

has_timer_trigger(tokens) ==
    LET has_unit   == HasAny(tokens, UnitWords)
        has_action == HasAny(tokens, TIMER_START_WORDS \cup TIMER_CANCEL_WORDS
                                       \cup TIMER_STATUS_WORDS)
        has_number == \E i \in DOMAIN tokens : IsNumberTok(tokens[i])
    IN  IF HasAny(tokens, STRONG_TIMER) THEN TRUE
        ELSE IF HasAny(tokens, WEAK_TIMER) THEN has_unit \/ has_action
        ELSE has_unit /\ (has_action \/ has_number)

\* the unit search of the start branch: near the number first, then anywhere,
\* then minutes
FindUnit(tokens, num_idx) ==
    LET lo   == IF num_idx - 1 < 1 THEN 1 ELSE num_idx - 1
        hi   == IF num_idx + 4 > Len(tokens) THEN Len(tokens) ELSE num_idx + 4
        near == {i \in lo..hi : tokens[i] \in UnitWords}
        any  == {i \in DOMAIN tokens : tokens[i] \in UnitWords}
        Min(S) == CHOOSE x \in S : \A y \in S : x <= y
    IN  IF near # {} THEN classify_unit(tokens[Min(near)])
        ELSE IF any # {} THEN classify_unit(tokens[Min(any)])
        ELSE "minute"

NoIntent == [action |-> "none", seconds |-> 0, label |-> <<>>]

extract_timer_intent(text) ==
    LET tokens  == LowerText(text)
        num_idx == FirstIn(tokens, 1, {t \in {tokens[i] : i \in DOMAIN tokens} :
                                         IsNumberTok(t)})
    IN  IF ~has_timer_trigger(tokens) THEN NoIntent
        ELSE IF HasAny(tokens, TIMER_CANCEL_WORDS)
             THEN [action |-> "cancel", seconds |-> 0, label |-> <<>>]
        ELSE IF HasAny(tokens, TIMER_STATUS_WORDS)
             THEN [action |-> "status", seconds |-> 0, label |-> <<>>]
        ELSE IF num_idx = 0
             THEN [action |-> "unclear", seconds |-> 0, label |-> <<>>]
        ELSE LET number == word_to_num(tokens[num_idx])
                 unit   == FindUnit(tokens, num_idx)
             IN  [action |-> "start", seconds |-> to_seconds(number, unit),
                  label |-> <<number, unit>>]

\* ----------------------------------------------- intents/notice_intent.py
NOTICE_WORDS == {"notice", "yaad", "reminder"}
NOTICE_CANCEL_WORDS == {"band", "cancel", "roko"}
NOTICE_STATUS_WORDS == {"kitna", "kab", "baaki", "batao"}
CLOCK_WORDS == {"baje"}

\* _clock_to_delay reads datetime.now(): the seconds until the next HH:MM are
\* an input of the environment
ClockDelays == {1800}

extract_notice_intent(text, clock_delay) ==
    LET tokens  == LowerText(text)
        num_idx == FirstIn(tokens, 1, {t \in {tokens[i] : i \in DOMAIN tokens} :
                                         IsNumberTok(t)})
    IN  IF ~HasAny(tokens, NOTICE_WORDS) THEN NoIntent
        ELSE IF HasAny(tokens, NOTICE_CANCEL_WORDS)
             THEN [action |-> "cancel", seconds |-> 0, label |-> <<>>]
        ELSE IF HasAny(tokens, NOTICE_STATUS_WORDS)
             THEN [action |-> "status", seconds |-> 0, label |-> <<>>]
        ELSE IF HasAny(tokens, CLOCK_WORDS)
             THEN IF num_idx = 0
                  THEN [action |-> "unclear", seconds |-> 0, label |-> <<>>]
                  ELSE LET n  == word_to_num(tokens[num_idx])
                           h1 == IF n < 6 /\ ~Has(tokens, "subah") THEN n + 12 ELSE n
                           h  == IF h1 > 23 THEN 23 ELSE h1
                       IN  [action |-> "start_clock", seconds |-> clock_delay,
                            label |-> <<h, "baje">>]
        ELSE IF num_idx = 0
             THEN [action |-> "unclear", seconds |-> 0, label |-> <<>>]
        ELSE LET num  == word_to_num(tokens[num_idx])
                 unit == FindUnit(tokens, num_idx)
             IN  [action |-> "start_duration", seconds |-> to_seconds(num, unit),
                  label |-> <<num, unit>>]

\* ----------------------------------------------- intents/volume_intent.py
VOLUME_TRIGGER == {"volume", "awaz"}

extract_volume_intent(text) ==
    LET tokens == LowerText(text)
    IN  IF ~HasAny(tokens, VOLUME_TRIGGER) THEN "none"
        ELSE IF HasAny(tokens, {"unmute", "chalu"}) THEN "unmute"
        ELSE IF HasAny(tokens, {"mute", "band", "chup"}) THEN "mute"
        ELSE IF HasAny(tokens, {"kitna", "batao", "status"}) THEN "status"
        ELSE IF HasAny(tokens, {"badhao", "tez"}) THEN "increase"
        ELSE IF HasAny(tokens, {"kam", "ghatao"}) THEN "decrease"
        ELSE "unclear"

\* ------------------------------------------------- intents/math_intent.py
ALL_OP_WORDS == {"plus", "minus", "guna", "bhaag"}

extract_math_intent(text) == HasAny(LowerText(text), ALL_OP_WORDS)

\* -------------------------------------------- intents/remainder_intent.py
ALARM_KEYWORDS == {"alarm", "jagana", "uthana", "yaad"}

\* word_to_number walks HINDI_NUMBERS in dictionary order, not in text order
AlarmNumberOrder == <<"ek", "do", "teen", "char", "paanch", "saat", "das">>

RECURSIVE alarm_word_to_number(_, _)
alarm_word_to_number(text, k) ==
    IF k > Len(AlarmNumberOrder) THEN 0
    ELSE IF Has(text, AlarmNumberOrder[k]) THEN NumberWords[AlarmNumberOrder[k]]
    ELSE alarm_word_to_number(text, k + 1)

detect_period(text) ==
    IF Has(text, "subah") THEN "AM"
    ELSE IF HasAny(text, {"shaam", "raat"}) THEN "PM"
    ELSE "none"

\* extract_time: the first one or two digits of the first numeral, else a
\* number word; 0 stands for "no hour found" ("if num:" is false for 0 too)
extract_time(text) ==
    LET d == FirstIn(text, 1, {t \in {text[i] : i \in DOMAIN text} : IsDigitTok(t)})
    IN  IF d # 0
        THEN LET ds == DigitsOfTok(text[d])
             IN  [found |-> TRUE,
                  hour |-> IF Len(ds) = 1 THEN ds[1] ELSE ds[1] * 10 + ds[2]]
        ELSE LET num == alarm_word_to_number(text, 1)
             IN  [found |-> num # 0, hour |-> num]

\* the "HH:MM" string that extract_alarm_intent hands to set_alarm, as
\* <<hour, minute>>; <<>> when it returns None without setting an alarm
extract_alarm_intent(text) ==
    LET lower  == LowerText(text)
        period == detect_period(lower)
        t      == extract_time(lower)
        h1     == IF period = "PM" /\ t.hour < 12 THEN t.hour + 12
                  ELSE IF period = "AM" /\ t.hour = 12 THEN 0
                  ELSE t.hour
        hour   == IF h1 > 23 THEN 23 ELSE h1
    IN  IF ~HasAny(lower, ALARM_KEYWORDS) THEN <<>>
        ELSE IF ~t.found THEN <<>>
        ELSE <<hour, 0>>

\* ------------------------------------------------------ core/handlers.py
\* assistant_ctx["pending_notice_delay"] is None
NoDelay == -1

InitCtx == [pending_alarm_text |-> <<>>, pin_prompt_time |-> 0,
            pending_notice_delay |-> NoDelay, pending_notice_label |-> <<>>]

\* What the schedulers answer to the handler: whether the timer / notice
\* worker is alive, and the delay _clock_to_delay computes.
SchedEnvs == [timer_alive : BOOLEAN, notice_alive : BOOLEAN, clock_delay : ClockDelays]

handle_timer(text, sch) ==
    LET intent == extract_timer_intent(text)
    IN  [matched |-> intent.action # "none",
         eff |->
            CASE intent.action = "start" ->
                    <<Call("start_timer", intent.seconds), Speak("timer_started")>>
              [] intent.action = "cancel" ->
                    <<Call("cancel_timer", 0),
                      IF sch.timer_alive THEN Speak("timer_cancelled")
                      ELSE Speak("no_timer")>>
              [] intent.action = "status" ->
                    <<Call("is_running", 0),
                      IF sch.timer_alive THEN Speak("timer_remaining")
                      ELSE Speak("no_timer")>>
              [] intent.action = "unclear" ->
                    <<Speak("timer_unclear"), Speak("timer_example")>>
              [] OTHER -> <<>>]

handle_math(text) ==
    [matched |-> extract_math_intent(text),
     eff |-> IF extract_math_intent(text) THEN <<Speak("math_answer")>> ELSE <<>>]

handle_volume(text) ==
    LET action == extract_volume_intent(text)
    IN  [matched |-> action # "none",
         eff |-> IF action = "none" THEN <<>>
                 ELSE IF action = "unclear" THEN <<Speak("volume_unclear")>>
                 ELSE <<[op |-> "volume", arg |-> action, n |-> 0],
                        Speak("volume_reply")>>]

\* cancel_alarm of utils/alarm_thread.py is inlined: _alarm_time = None, speak
handle_alarm_cancel(text, alarm) ==
    LET lower == LowerText(text)
    IN  IF ~(Has(text, "alarm") \/ Has(lower, "alarm_en")) THEN
            [matched |-> FALSE, alarm |-> alarm, eff |-> <<>>]
        ELSE IF ~(HasAny(text, {"radd", "band"}) \/ Has(lower, "cancel")) THEN
            [matched |-> FALSE, alarm |-> alarm, eff |-> <<>>]
        ELSE IF alarm # <<>> THEN
            [matched |-> TRUE, alarm |-> <<>>,
             eff |-> <<Call("cancel_alarm", 0), Speak("alarm_cancelled")>>]
        ELSE [matched |-> TRUE, alarm |-> alarm, eff |-> <<Speak("no_alarm")>>]

handle_alarm_status(text, alarm) ==
    LET lower == LowerText(text)
    IN  IF ~(Has(text, "alarm") \/ Has(lower, "alarm_en")) THEN
            [matched |-> FALSE, eff |-> <<>>]
        ELSE IF ~(HasAny(text, {"kab", "kya", "batao"}) \/ Has(lower, "status")) THEN
            [matched |-> FALSE, eff |-> <<>>]
        ELSE [matched |-> TRUE,
              eff |-> IF alarm # <<>> THEN <<Speak("alarm_is_set")>>
                      ELSE <<Speak("no_alarm")>>]

handle_alarm_set_keeps_earlier_request(text, ctx, now) ==
    IF ~HasAny(text, ALARM_KEYWORDS)
    THEN [state |-> "ACTIVE", ctx |-> ctx, eff |-> <<>>]
    ELSE [state |-> "AWAITING_PIN",
          ctx |-> IF ctx.pending_alarm_text # <<>> THEN ctx
                  ELSE [ctx EXCEPT !.pending_alarm_text = text,
                                   !.pin_prompt_time = now],
          eff |-> <<Speak("pin_prompt")>>]

handle_alarm_set(text, ctx, now) ==
    IF ~HasAny(text, ALARM_KEYWORDS)
    THEN [state |-> "ACTIVE", ctx |-> ctx, eff |-> <<>>]
    ELSE [state |-> "AWAITING_PIN",
          ctx |-> [ctx EXCEPT !.pending_alarm_text = text, !.pin_prompt_time = now],
          eff |-> <<Speak("pin_prompt")>>]

handle_notice(text, ctx, sch) ==
    LET intent == extract_notice_intent(text, sch.clock_delay)
    IN  CASE intent.action = "none" ->
                [state |-> "ACTIVE", ctx |-> ctx, eff |-> <<>>]
          [] intent.action = "cancel" ->
                [state |-> "ACTIVE", ctx |-> ctx,
                 eff |-> <<Call("cancel_notice", 0),
                           IF sch.notice_alive THEN Speak("notice_cancelled")
                           ELSE Speak("no_notice")>>]
          [] intent.action = "status" ->
                [state |-> "ACTIVE", ctx |-> ctx,
                 eff |-> <<Call("get_notice_status", 0), Speak("notice_remaining")>>]
          [] intent.action = "unclear" ->
                [state |-> "ACTIVE", ctx |-> ctx,
                 eff |-> <<Speak("notice_unclear"), Speak("notice_example")>>]
          [] OTHER ->
                [state |-> "RECORDING_NOTICE",
                 ctx |-> [ctx EXCEPT !.pending_notice_delay = intent.seconds,
                                     !.pending_notice_label = intent.label],
                 eff |-> <<Speak("notice_will_be_set"), Speak("speak_your_notice")>>]

handle_notice_recording_keeps_pending(ctx) ==
    [state |-> "ACTIVE",
     ctx |-> ctx,
     recorder |-> [delay |-> IF ctx.pending_notice_delay \in {NoDelay, 0} THEN 60
                             ELSE ctx.pending_notice_delay,
                   label |-> ctx.pending_notice_label],
     eff |-> <<Call("NoticeRecorder", 0)>>]

\* handle_notice_recording: the delay and label the NoticeRecorder thread gets
handle_notice_recording(ctx) ==
    [state |-> "ACTIVE",
     ctx |-> [ctx EXCEPT !.pending_notice_delay = NoDelay,
                         !.pending_notice_label = <<>>],
     recorder |-> [delay |-> IF ctx.pending_notice_delay \in {NoDelay, 0} THEN 60
                             ELSE ctx.pending_notice_delay,
                   label |-> ctx.pending_notice_label],
     eff |-> <<Call("NoticeRecorder", 0)>>]

\* what a handler hands back to callback: the next state, the context, the
\* alarm time, and what was spoken and called
Outcome(next_state, ctx, alarm, eff) ==
    [state |-> next_state, ctx |-> ctx, alarm |-> alarm, auth |-> <<>>,
     eff |-> eff, spawn |-> <<>>]

\* the time and date replies come first and do not end the routing
time_date(text) ==
    (IF Has(text, "samay") THEN <<Speak("time")>> ELSE <<>>)
    \o (IF HasAny(text, {"tareekh", "din", "aaj"}) THEN <<Speak("date")>> ELSE <<>>)

\* handle_active_command, from the alarm handlers on
route_alarm(text, ctx, alarm, now, td, ac, as, st) ==
    IF ac.matched THEN Outcome("ACTIVE", ctx, ac.alarm, td \o ac.eff)
    ELSE IF as.matched THEN Outcome("ACTIVE", ctx, alarm, td \o as.eff)
    ELSE Outcome(st.state, st.ctx, alarm, td \o st.eff)

route_alarm_first(text, ctx, alarm, now, td, vol, tim, mth, ntc, notice_matched) ==
    IF vol.matched THEN Outcome("ACTIVE", ctx, alarm, td \o vol.eff)
    ELSE IF tim.matched THEN Outcome("ACTIVE", ctx, alarm, td \o tim.eff)
    ELSE IF mth.matched THEN Outcome("ACTIVE", ctx, alarm, td \o mth.eff)
    ELSE IF handle_alarm_set(text, ctx, now).state # "ACTIVE"
    THEN route_alarm(text, ctx, alarm, now, td,
                     handle_alarm_cancel(text, alarm),
                     handle_alarm_status(text, alarm),
                     handle_alarm_set(text, ctx, now))
    ELSE Outcome(ntc.state, ntc.ctx, alarm, td \o ntc.eff)

\* handle_active_command, from the volume handler on
route(text, ctx, alarm, now, td, vol, tim, mth, ntc, notice_matched) ==
    IF vol.matched THEN Outcome("ACTIVE", ctx, alarm, td \o vol.eff)
    ELSE IF tim.matched THEN Outcome("ACTIVE", ctx, alarm, td \o tim.eff)
    ELSE IF mth.matched THEN Outcome("ACTIVE", ctx, alarm, td \o mth.eff)
    ELSE IF ntc.state # "ACTIVE" \/ notice_matched
    THEN Outcome(ntc.state, ntc.ctx, alarm, td \o ntc.eff)
    ELSE route_alarm(text, ctx, alarm, now, td,
                     handle_alarm_cancel(text, alarm),
                     handle_alarm_status(text, alarm),
                     handle_alarm_set(text, ctx, now))

handle_active_command_exit_cancels_alarm(text, ctx, alarm, now, sch) ==
    IF Has(text, EXIT_WORD)
    THEN Outcome("SLEEPING", ctx, <<>>, <<Speak("farewell")>>)
    ELSE route(text, ctx, alarm, now, time_date(text),
               handle_volume(text), handle_timer(text, sch), handle_math(text),
               handle_notice(text, ctx, sch),
               extract_notice_intent(text, sch.clock_delay).action # "none")

handle_active_command(text, ctx, alarm, now, sch) ==
    IF Has(text, EXIT_WORD)
    THEN Outcome("SLEEPING", ctx, alarm, <<Speak("farewell")>>)
    ELSE route(text, ctx, alarm, now, time_date(text),
               handle_volume(text), handle_timer(text, sch), handle_math(text),
               handle_notice(text, ctx, sch),
               extract_notice_intent(text, sch.clock_delay).action # "none")

\* handle_pin_input, the timeout test on the age of the PIN prompt
pin_prompt_expired_reversed(ctx, now) ==
    ctx.pin_prompt_time - now > PIN_PROMPT_TIMEOUT

pin_prompt_expired(ctx, now) ==
    now - ctx.pin_prompt_time > PIN_PROMPT_TIMEOUT

\* handle_pin_input, the test that guards the alarm-setting branch
pin_authorized_any_result(a) == a.reason # ""

pin_authorized(a) == a.authorized

\* handle_pin_input, the branch of a refused attempt
pin_rejected_retry(a, cleared, alarm) ==
    [state |-> "AWAITING_PIN", ctx |-> cleared, alarm |-> alarm, auth |-> <<a>>,
     eff |-> <<Call("authenticate_user", 0), Speak(a.reason),
               Speak("alarm_not_set")>>,
     spawn |-> <<>>]

pin_rejected(a, cleared, alarm) ==
    [state |-> "ACTIVE", ctx |-> cleared, alarm |-> alarm, auth |-> <<a>>,
     eff |-> <<Call("authenticate_user", 0), Speak(a.reason),
               Speak("alarm_not_set")>>,
     spawn |-> <<>>]

\* handle_pin_input, the branch of an authorized attempt.  result is what
\* extract_alarm_intent(pending) returns; set_alarm of utils/alarm_thread.py
\* is inlined: extract_alarm_intent calls it when it found a time
pin_accepted(a, result, cleared, alarm) ==
    IF result # <<>>
    THEN [state |-> "ACTIVE", ctx |-> cleared, alarm |-> result, auth |-> <<a>>,
          eff |-> <<Call("authenticate_user", 0), Speak("auth_success"),
                    Call("set_alarm", result[1]), Speak("alarm_set")>>,
          spawn |-> <<>>]
    ELSE [state |-> "ACTIVE", ctx |-> cleared, alarm |-> alarm, auth |-> <<a>>,
          eff |-> <<Call("authenticate_user", 0), Speak("auth_success"),
                    Speak("alarm_time_unclear")>>,
          spawn |-> <<>>]

\* handle_pin_input, from the call of authenticate_user on; a is its result
pin_attempt(a, ctx, alarm) ==
    IF pin_authorized(a)
    THEN pin_accepted(a, extract_alarm_intent(ctx.pending_alarm_text),
                      [ctx EXCEPT !.pending_alarm_text = <<>>], alarm)
    ELSE pin_rejected(a, [ctx EXCEPT !.pending_alarm_text = <<>>], alarm)

handle_pin_input_parses_pin_utterance(text, audio, ctx, alarm, now, env) ==
    IF pin_prompt_expired(ctx, now)
    THEN Outcome("ACTIVE", ctx, alarm, <<Speak("timeout")>>)
    ELSE IF Has(text, EXIT_WORD)
    THEN Outcome("ACTIVE", ctx, alarm, <<Speak("alarm_cancel")>>)
    ELSE pin_attempt(authenticate_user(text, TRUE, audio, env),
                     [ctx EXCEPT !.pending_alarm_text = text], alarm)

handle_pin_input(text, audio, ctx, alarm, now, env) ==
    IF pin_prompt_expired(ctx, now)
    THEN Outcome("ACTIVE", ctx, alarm, <<Speak("timeout")>>)
    ELSE IF Has(text, EXIT_WORD)
    THEN Outcome("ACTIVE", ctx, alarm, <<Speak("alarm_cancel")>>)
    ELSE pin_attempt(authenticate_user(text, TRUE, audio, env), ctx, alarm)

\* ---------------------------------------------------- core/recognizer.py
RECURSIVE SumSeq(_)
SumSeq(q) == IF q = <<>> THEN 0 ELSE Head(q) + SumSeq(Tail(q))

get_pin_audio_of_cleared_buffer(buffer) == 0

\* len(get_pin_audio()): the PCM blocks joined into one array
get_pin_audio(buffer) == SumSeq(buffer)

is_meaningful_checks_length_in_pin_mode(confs, text, check_word_length) ==
    IF confs # <<>> /\ ASR_CONFIDENCE_THRESHOLD > 0
       /\ SumSeq(confs) < ASR_CONFIDENCE_THRESHOLD * Len(confs)
    THEN FALSE
    ELSE IF ASR_MIN_WORD_LENGTH > 1
            /\ text # <<>>
            /\ \A i \in DOMAIN text : TokLen(text[i]) < ASR_MIN_WORD_LENGTH
    THEN FALSE
    ELSE TRUE

\* confs is the list of per-word "conf" values of result["result"], empty
\* when the recognizer gives none
is_meaningful(confs, text, check_word_length) ==
    IF confs # <<>> /\ ASR_CONFIDENCE_THRESHOLD > 0
       /\ SumSeq(confs) < ASR_CONFIDENCE_THRESHOLD * Len(confs)
    THEN FALSE
    ELSE IF check_word_length /\ ASR_MIN_WORD_LENGTH > 1
            /\ text # <<>>
            /\ \A i \in DOMAIN text : TokLen(text[i]) < ASR_MIN_WORD_LENGTH
    THEN FALSE
    ELSE TRUE

\* ------------------------------------------------------------- inputs
\* one utterance for each way the session can move, and commands that
\* leave it where it is
Utterances ==
    { <<>>,
      <<"namaste">>, <<"dhanyavaad">>,
      <<"timer", "band">>, <<"notice", "band">>,
      <<"das", "baad", "notice">>, <<"shunya", "baad", "notice">>,
      <<"alarm", "band">>,
      <<"alarm", "saat", "baje">>, <<"alarm", "lagao">>,
      <<"ek", "do", "teen", "char">>, <<"ek", "do">>,
      <<"mausam">>, <<"aa">> }

ConfSamples == { <<>>, <<30, 70>> }

BlockSizes == {4000, 8000}

QuietEnv == [mfcc |-> FALSE, profile |-> FALSE, score |-> 45]

NoCall == [spoken_pin |-> <<>>, check_voice |-> FALSE, audio |-> NoAudio,
           env |-> QuietEnv]

\* _start_time = None, _duration = None
NoTimer == [start |-> -1, duration |-> -1, by |-> 0]

FgIdle == [pc |-> "idle", seconds |-> 0, since |-> 0]

NoAnswer == [op |-> "none", by |-> 0, value |-> -1]

\* no notice was ever scheduled, no clip exists
NoNotice == [file |-> 0, eta |-> -1, label |-> <<>>]

NoticeIdle ==
    /\ notice_recorders = <<>>
    /\ notice_workers = <<>>
    /\ notice_events = {}
    /\ notice_thread = 0
    /\ notice_cancel_event = 0
    /\ notice_state = NoNotice
    /\ notice_files = {}

\* start_alarm_thread has run: the checker polls at once
AlarmIdle ==
    /\ alarm_checker = [pc |-> "sleeping", wake |-> 0]
    /\ alarm_log = [sets |-> 0, rings |-> 0, set_since_ring |-> FALSE]

\* handle_active_command has not been called on its own
NoHeard == [text |-> <<>>, sch |-> [timer_alive |-> FALSE,
                                    notice_alive |-> FALSE,
                                    clock_delay |-> 1800],
            alarm |-> <<>>, done |-> FALSE]

RouteIdle == heard = NoHeard

\* the threads that touch a scheduler: the conversation thread (the audio
\* callback and the handlers it calls) and the four kinds of thread the
\* program starts
Threads == {"conversation", "TimerWorker", "NoticeRecorder", "NoticeWorker",
            "AlarmChecker"}

\* utils/timer_thread.py, utils/notice_thread.py, utils/alarm_thread.py: each
\* module has its own _lock
Owners == {"timer", "notice", "alarm"}

\* no thread is inside a scheduler function and no _lock is held
NoLocks == [held |-> [o \in Owners |-> "free"],
            at |-> [t \in Threads |-> [op |-> "idle", i |-> 0]]]

LocksIdle == locks = NoLocks

\* --------------------------------------------------------------- actions
Init ==
    /\ state = "SLEEPING"
    /\ assistant_ctx = InitCtx
    /\ pin_audio_buffer = <<>>
    /\ alarm_time = <<>>
    /\ clock = 0
    /\ effects = <<>>
    /\ auth = <<>>
    /\ recorders = <<>>
    /\ call = NoCall
    /\ timer_workers = <<>>
    /\ timer_events = {}
    /\ timer_thread = 0
    /\ timer_cancel_event = 0
    /\ timer_state = NoTimer
    /\ fg = FgIdle
    /\ answer = NoAnswer
    /\ NoticeIdle
    /\ AlarmIdle
    /\ LocksIdle
    /\ RouteIdle

Appended_in_any_state(block) == Append(pin_audio_buffer, block)

\* "if _state == State.AWAITING_PIN: _pin_audio_buffer.append(bytes(indata))"
Appended(block) ==
    IF state = "AWAITING_PIN" THEN Append(pin_audio_buffer, block)
    ELSE pin_audio_buffer

\* outside AWAITING_PIN the block is not kept, so its size is not an input
BlocksHeard == IF state = "AWAITING_PIN" THEN BlockSizes ELSE {4000}

\* callback on a block that does not complete an utterance
\* (recognizer.AcceptWaveform returns False)
CallbackPartial ==
    \E block \in BlocksHeard :
        /\ state = "AWAITING_PIN" => Len(pin_audio_buffer) + 1 < MaxBlocks
        /\ pin_audio_buffer' = Appended(block)
        /\ effects' = <<>>
        /\ auth' = <<>>
        /\ UNCHANGED <<state, assistant_ctx, alarm_time, clock, recorders,
                       call>>
        /\ UNCHANGED backgroundVars

CallbackDropped_clears_buffer ==
    \E block \in BlocksHeard, text \in Utterances, confs \in ConfSamples :
        /\ state = "AWAITING_PIN" => Len(pin_audio_buffer) < MaxBlocks
        /\ text = <<>> \/ ~is_meaningful(confs, text, state # "AWAITING_PIN")
        /\ pin_audio_buffer' = <<>>
        /\ effects' = <<>>
        /\ auth' = <<>>
        /\ UNCHANGED <<state, assistant_ctx, alarm_time, clock, recorders,
                       call>>
        /\ UNCHANGED backgroundVars

\* callback on the block that completes an utterance, which is empty or is
\* dropped by the quality gates
CallbackDropped ==
    \E block \in BlocksHeard, text \in Utterances, confs \in ConfSamples :
        /\ state = "AWAITING_PIN" => Len(pin_audio_buffer) < MaxBlocks
        /\ text = <<>> \/ ~is_meaningful(confs, text, state # "AWAITING_PIN")
        /\ pin_audio_buffer' = Appended(block)
        /\ effects' = <<>>
        /\ auth' = <<>>
        /\ UNCHANGED <<state, assistant_ctx, alarm_time, clock, recorders,
                       call>>
        /\ UNCHANGED backgroundVars

dispatch_sleeping_hears_commands(text, audio, env, sch) ==
    LET rec == handle_notice_recording(assistant_ctx)
    IN  CASE state = "SLEEPING" ->
                IF Has(text, WAKE_WORD)
                THEN Outcome("ACTIVE", assistant_ctx, alarm_time,
                             <<Speak("greeting")>>)
                ELSE handle_active_command(text, assistant_ctx, alarm_time,
                                           clock, sch)
          [] state = "AWAITING_PIN" ->
                handle_pin_input(text, audio, assistant_ctx, alarm_time, clock, env)
          [] state = "RECORDING_NOTICE" ->
                [state |-> rec.state, ctx |-> rec.ctx, alarm |-> alarm_time,
                 auth |-> <<>>, eff |-> rec.eff, spawn |-> <<rec.recorder>>]
          [] OTHER ->
                handle_active_command(text, assistant_ctx, alarm_time, clock, sch)

\* callback lines 143-172: the dispatch on the session state, for an
\* utterance that passed the quality gates.  spawn holds the NoticeRecorder
\* thread the step starts, if any.
dispatch(text, audio, env, sch) ==
    LET rec == handle_notice_recording(assistant_ctx)
    IN  CASE state = "SLEEPING" ->
                IF Has(text, WAKE_WORD)
                THEN Outcome("ACTIVE", assistant_ctx, alarm_time,
                             <<Speak("greeting")>>)
                ELSE Outcome("SLEEPING", assistant_ctx, alarm_time, <<>>)
          [] state = "AWAITING_PIN" ->
                handle_pin_input(text, audio, assistant_ctx, alarm_time, clock, env)
          [] state = "RECORDING_NOTICE" ->
                [state |-> rec.state, ctx |-> rec.ctx, alarm |-> alarm_time,
                 auth |-> <<>>, eff |-> rec.eff, spawn |-> <<rec.recorder>>]
          [] OTHER ->
                handle_active_command(text, assistant_ctx, alarm_time, clock, sch)

Dispatched_keeps_buffer(d) ==
    /\ pin_audio_buffer' = Appended(4000)
    /\ state' = d.state
    /\ assistant_ctx' = d.ctx
    /\ alarm_time' = d.alarm
    /\ effects' = d.eff
    /\ auth' = d.auth
    /\ recorders' = recorders \o d.spawn
    /\ UNCHANGED <<clock, call>>
    /\ UNCHANGED backgroundVars

\* callback: the assignments of the dispatch step, d being its outcome;
\* get_pin_audio() and clear_pin_audio() empty the buffer in AWAITING_PIN
Dispatched(d) ==
    /\ pin_audio_buffer' = IF state = "AWAITING_PIN" THEN <<>>
                           ELSE pin_audio_buffer
    /\ state' = d.state
    /\ assistant_ctx' = d.ctx
    /\ alarm_time' = d.alarm
    /\ effects' = d.eff
    /\ auth' = d.auth
    /\ recorders' = recorders \o d.spawn
    /\ UNCHANGED <<clock, call>>
    /\ UNCHANGED backgroundVars

\* the voice environment matters to the AWAITING_PIN branch only, the
\* schedulers' answers to the ACTIVE branch only
EnvsHeard == IF state = "AWAITING_PIN" THEN VoiceEnvs ELSE {QuietEnv}

SchedHeard == IF state = "ACTIVE" THEN SchedEnvs
              ELSE {[timer_alive |-> FALSE, notice_alive |-> FALSE,
                     clock_delay |-> 1800]}

\* callback on the block that completes an utterance which passes the
\* quality gates: the state machine step
Callback ==
    /\ state = "AWAITING_PIN" => Len(pin_audio_buffer) < MaxBlocks
    /\ state = "RECORDING_NOTICE" => Len(recorders) < MaxRecorders
    /\ \E text \in Utterances, confs \in ConfSamples :
        /\ text # <<>> /\ is_meaningful(confs, text, state # "AWAITING_PIN")
        /\ \E block \in BlocksHeard, env \in EnvsHeard, sch \in SchedHeard :
            Dispatched(dispatch(text, get_pin_audio(Appended(block)), env, sch))

\* time passes: up to the prompt timeout exactly, or one second beyond it
TickSteps == {PIN_PROMPT_TIMEOUT, PIN_PROMPT_TIMEOUT + 1}

Tick ==
    \E d \in TickSteps :
    /\ clock + d <= MaxClock
    /\ clock' = clock + d
    /\ UNCHANGED <<state, assistant_ctx, pin_audio_buffer, alarm_time, effects,
                   auth, recorders, call>>
    /\ UNCHANGED backgroundVars

\* _alarm_checker: the poll that finds datetime.now() at the target minute
\* rings and auto-clears _alarm_time
AlarmCheckerRing ==
    /\ alarm_time # <<>>
    /\ alarm_time' = <<>>
    /\ UNCHANGED <<state, assistant_ctx, pin_audio_buffer, clock, effects, auth,
                   recorders, call>>
    /\ UNCHANGED backgroundVars

NoticeRecorderDone_sets_state ==
    /\ recorders # <<>>
    /\ recorders' = Tail(recorders)
    /\ state' = "ACTIVE"
    /\ UNCHANGED <<assistant_ctx, pin_audio_buffer, alarm_time, clock,
                   effects, auth, call>>
    /\ UNCHANGED backgroundVars

\* a NoticeRecorder thread (_record_and_schedule) runs to its end
NoticeRecorderDone ==
    /\ recorders # <<>>
    /\ recorders' = Tail(recorders)
    /\ UNCHANGED <<state, assistant_ctx, pin_audio_buffer, alarm_time, clock,
                   effects, auth, call>>
    /\ UNCHANGED backgroundVars

Next ==
    \/ CallbackPartial
    \/ CallbackDropped
    \/ Callback
    \/ Tick
    \/ AlarmCheckerRing
    \/ NoticeRecorderDone

Spec == Init /\ [][Next]_vars

\* ---------------------------------------------------------------------------
\* Properties of the session (Spec)

\* C1: the alarm time is assigned only by a dispatch step taken in
\* AWAITING_PIN whose Auth Gate result is authorized; no step from SLEEPING,
\* ACTIVE or RECORDING_NOTICE, and no PIN step that ends in a wrong PIN, a
\* timeout or an exit-phrase cancel, assigns it.
C1_AlarmSetOnlyWhenAuthorized ==
    /\ []((\E i \in DOMAIN effects : effects[i].arg = "set_alarm")
            => (auth # <<>> /\ auth[1].authorized))
    /\ [][(alarm_time' # alarm_time /\ alarm_time' # <<>>)
            => (/\ state = "AWAITING_PIN"
                /\ auth' # <<>> /\ auth'[1].authorized
                /\ \E i \in DOMAIN effects' : effects'[i].arg = "set_alarm")]_vars

\* an authorized PIN attempt has set the alarm
C1_Witness ==
    /\ state = "ACTIVE" /\ alarm_time # <<>>
    /\ auth # <<>> /\ auth[1].authorized
    /\ \E i \in DOMAIN effects : effects[i].arg = "set_alarm"

\* C5: the session state is always one of the four states; the state a
\* dispatch yields for an utterance does not depend on what the environment
\* answers (audio, voice check, schedulers), so that there is exactly one
\* next state; and the session state changes in a dispatch step only, never
\* in a step of a background worker or of a recorder thread.
C5_OneStatePerDispatch ==
    /\ [](state \in {"SLEEPING", "ACTIVE", "AWAITING_PIN", "RECORDING_NOTICE"})
    /\ [](\A text \in Utterances \ {<<>>} :
            Cardinality({dispatch(text, get_pin_audio(Appended(b)), env, sch).state :
                            b \in BlocksHeard, env \in EnvsHeard,
                            sch \in SchedHeard}) = 1)
    /\ [][state' # state => Callback]_vars

\* a recorder thread is running while the session is back in ACTIVE
C5_Witness == state = "ACTIVE" /\ recorders # <<>>

C7_TimeoutSkipsAuthGate ==
    [][(/\ state = "AWAITING_PIN"
        /\ clock - assistant_ctx.pin_prompt_time > PIN_PROMPT_TIMEOUT
        /\ Callback)
        => (/\ state' = "ACTIVE"
            /\ effects' = <<Speak("timeout")>>
            /\ auth' = <<>>
            /\ alarm_time' = alarm_time)]_vars

\* the timeout message was spoken for a prompt older than the timeout
C7_Witness ==
    /\ state = "ACTIVE" /\ effects = <<Speak("timeout")>>
    /\ clock - assistant_ctx.pin_prompt_time > PIN_PROMPT_TIMEOUT

\* C8: outside AWAITING_PIN the pending alarm text is empty.
C8_PendingTextOnlyWhileAwaitingPin ==
    state # "AWAITING_PIN" => assistant_ctx.pending_alarm_text = <<>>

\* ---------------------------------------------------------------------------
\* The Auth Gate on its own: authenticate_user applied to one call drawn
\* from AuthCalls.
PinVocabulary == {"ek", "do", "teen", "char", "12", "34", "hmm"}

PinTexts ==
    { <<>>, <<"ek", "do", "teen", "char">>, <<"ONE", "do", "teen", "char">>,
      <<"1234">>, <<"1", "2", "3", "4">>, <<"ek", "do">>, <<"hmm">>,
      <<"char", "teen", "do", "ek">> }

AudioSizes == {NoAudio, 0, 4000, 8000}

SpokenPins == UNION { [1..n -> PinVocabulary] : n \in 0..MaxPinTokens }

AuthCalls ==
    [spoken_pin : PinTexts, check_voice : BOOLEAN, audio : AudioSizes,
     env : VoiceEnvs]
    \cup
    [spoken_pin : SpokenPins, check_voice : {TRUE}, audio : {8000},
     env : {[mfcc |-> TRUE, profile |-> TRUE, score |-> s] : s \in Scores}]

InitAuth ==
    /\ state = "SLEEPING"
    /\ assistant_ctx = InitCtx
    /\ pin_audio_buffer = <<>>
    /\ alarm_time = <<>>
    /\ clock = 0
    /\ effects = <<>>
    /\ auth = <<>>
    /\ recorders = <<>>
    /\ call \in AuthCalls
    /\ timer_workers = <<>>
    /\ timer_events = {}
    /\ timer_thread = 0
    /\ timer_cancel_event = 0
    /\ timer_state = NoTimer
    /\ fg = FgIdle
    /\ answer = NoAnswer
    /\ NoticeIdle
    /\ AlarmIdle
    /\ LocksIdle
    /\ RouteIdle

Authenticate ==
    /\ auth = <<>>
    /\ auth' = <<authenticate_user(call.spoken_pin, call.check_voice,
                                   call.audio, call.env)>>
    /\ UNCHANGED <<state, assistant_ctx, pin_audio_buffer, alarm_time, clock,
                   effects, recorders, call>>
    /\ UNCHANGED backgroundVars

NextAuth == Authenticate

SpecAuth == InitAuth /\ [][NextAuth]_vars

\* ---------------------------------------------------------------------------
\* Properties of the Auth Gate (SpecAuth)

\* C2: the Auth Gate authorizes exactly when the PIN check passed and the
\* voice check either passed or was not requested; in particular a correct
\* PIN with a failed voice check is not authorized.
C2_AuthorizedIsPinAndVoice ==
    auth # <<>> =>
        auth[1].authorized =
            (auth[1].pin_ok /\ (auth[1].voice_ok \/ ~call.check_voice))

C10_PinFailureShortCircuits ==
    (auth # <<>> /\ ~verify_pin(call.spoken_pin)) =>
        /\ ~auth[1].pin_ok /\ ~auth[1].voice_ok /\ ~auth[1].authorized
        /\ auth[1].reason = "wrong_pin"
        /\ auth[1].calls = <<"verify_pin">>

\* a wrong PIN in a call whose voice check would have run and passed
C10_Witness ==
    /\ auth # <<>> /\ ~auth[1].pin_ok
    /\ call.spoken_pin # <<>>
    /\ call.check_voice /\ call.audio >= MinSamples
    /\ call.env.mfcc /\ call.env.profile
    /\ call.env.score >= VOICE_AUTH_THRESHOLD

\* C11: with a correct PIN and the voice check requested, the voice check
\* passes without any similarity comparison when the feature library is
\* missing, when no voice profile is enrolled, or when the captured audio is
\* supplied but shorter than the minimum duration; in every other case,
\* a call without captured audio (None or empty) included, a sample is
\* compared with the profile and voice_ok is the outcome of the comparison.
C11_VoiceCheckFailsOpen ==
    (auth # <<>> /\ verify_pin(call.spoken_pin) /\ call.check_voice) =>
        LET supplied == call.audio # NoAudio /\ call.audio > 0
            open     == \/ ~call.env.mfcc
                        \/ ~call.env.profile
                        \/ supplied /\ call.audio < MinSamples
            compared == \E i \in DOMAIN auth[1].calls :
                            auth[1].calls[i] = "_cosine_similarity"
        IN  /\ open => (auth[1].voice_ok /\ ~compared)
            /\ ~open => (/\ compared
                         /\ auth[1].voice_ok =
                                (call.env.score >= VOICE_AUTH_THRESHOLD))

\* a captured sample that is too short passed although its score is low
C11_Witness ==
    /\ auth # <<>> /\ auth[1].pin_ok /\ auth[1].voice_ok
    /\ call.check_voice
    /\ call.audio > 0 /\ call.audio < MinSamples
    /\ call.env.mfcc /\ call.env.profile
    /\ call.env.score < VOICE_AUTH_THRESHOLD

\* C11 as stated: a call without captured audio fails open as well
C11_FailsOpenWithoutAudio ==
    (auth # <<>> /\ verify_pin(call.spoken_pin) /\ call.check_voice) =>
        LET open == \/ call.audio = NoAudio \/ call.audio = 0
                    \/ call.audio < MinSamples
                    \/ ~call.env.profile
                    \/ ~call.env.mfcc
        IN  open => (/\ auth[1].voice_ok
                     /\ \A i \in DOMAIN auth[1].calls :
                            auth[1].calls[i] # "_cosine_similarity")

\* ---------------------------------------------------------------------------
\* utils/timer_thread.py: the conversation thread calls start_timer,
\* cancel_timer and get_remaining one after the other; every TimerWorker
\* thread runs _timer_worker.  clock is time.monotonic().  A step that only
\* computes takes no time; the waits, the join and the beep take time.
TimerSeconds == {1, 2}

JOIN_TIMEOUT == 1

sessionVars == <<state, assistant_ctx, pin_audio_buffer, alarm_time, effects,
                 auth, recorders, call>>

\* what the timer scheduler leaves alone
notTimerVars == <<sessionVars, noticeVars, alarmVars, routeVars, lockVars>>

\* Thread.is_alive(): started and not yet returned from _timer_worker
is_alive(w) == w # 0 /\ timer_workers[w].pc # "done"

InitTimer ==
    /\ state = "ACTIVE"
    /\ assistant_ctx = InitCtx
    /\ pin_audio_buffer = <<>>
    /\ alarm_time = <<>>
    /\ clock = 0
    /\ effects = <<>>
    /\ auth = <<>>
    /\ recorders = <<>>
    /\ call = NoCall
    /\ timer_workers = <<>>
    /\ timer_events = {}
    /\ timer_thread = 0
    /\ timer_cancel_event = 0
    /\ timer_state = NoTimer
    /\ fg = FgIdle
    /\ answer = NoAnswer
    /\ NoticeIdle
    /\ AlarmIdle
    /\ LocksIdle
    /\ RouteIdle

\* start_timer, up to the join: "if _timer_thread and _timer_thread.is_alive():
\* _cancel_event.set(); _timer_thread.join(timeout=1.0)"
StartTimerCall ==
    \E seconds \in TimerSeconds :
        /\ fg.pc = "idle"
        /\ Len(timer_workers) < MaxTimers
        /\ IF is_alive(timer_thread)
           THEN /\ timer_events' = timer_events \cup {timer_cancel_event}
                /\ fg' = [pc |-> "start_join", seconds |-> seconds, since |-> clock]
           ELSE /\ timer_events' = timer_events
                /\ fg' = [pc |-> "start_create", seconds |-> seconds, since |-> clock]
        /\ answer' = NoAnswer
        /\ UNCHANGED <<timer_workers, timer_thread, timer_cancel_event,
                       timer_state, clock>>
        /\ UNCHANGED notTimerVars

JoinReturns_without_timeout ==
    /\ fg.pc \in {"start_join", "cancel_join"}
    /\ ~is_alive(timer_thread)
    /\ fg' = [fg EXCEPT !.pc = IF fg.pc = "start_join" THEN "start_create"
                                ELSE "cancel_return"]
    /\ UNCHANGED <<timer_workers, timer_events, timer_thread,
                   timer_cancel_event, timer_state, answer, clock>>
    /\ UNCHANGED notTimerVars

\* join(timeout=1.0) returns: the thread has ended, or the timeout has run out
JoinReturns ==
    /\ fg.pc \in {"start_join", "cancel_join"}
    /\ ~is_alive(timer_thread) \/ clock >= fg.since + JOIN_TIMEOUT
    /\ fg' = [fg EXCEPT !.pc = IF fg.pc = "start_join" THEN "start_create"
                                ELSE "cancel_return"]
    /\ UNCHANGED <<timer_workers, timer_events, timer_thread,
                   timer_cancel_event, timer_state, answer, clock>>
    /\ UNCHANGED notTimerVars

\* start_timer, after the join: a fresh Event, a new Thread, start()
StartTimerCreate ==
    LET w == Len(timer_workers) + 1
    IN  /\ fg.pc = "start_create"
        /\ timer_cancel_event' = w
        /\ timer_workers' = Append(timer_workers,
                                [pc |-> "started", seconds |-> fg.seconds,
                                 cancel_ev |-> w, since |-> 0, fired |-> 0])
        /\ timer_thread' = w
        /\ fg' = FgIdle
        /\ UNCHANGED <<timer_events, timer_state, answer, clock>>
        /\ UNCHANGED notTimerVars

\* cancel_timer, up to the join, or all of it when no thread is alive
CancelTimerCall ==
    /\ fg.pc = "idle"
    /\ IF is_alive(timer_thread)
       THEN /\ timer_events' = timer_events \cup {timer_cancel_event}
            /\ fg' = [pc |-> "cancel_join", seconds |-> 0, since |-> clock]
            /\ answer' = NoAnswer
       ELSE /\ timer_events' = timer_events
            /\ fg' = FgIdle
            /\ answer' = [op |-> "cancel_timer", by |-> 0, value |-> 0]
    /\ UNCHANGED <<timer_workers, timer_thread, timer_cancel_event, timer_state,
                   clock>>
    /\ UNCHANGED notTimerVars

\* cancel_timer, after the join: return True
CancelTimerReturn ==
    /\ fg.pc = "cancel_return"
    /\ fg' = FgIdle
    /\ answer' = [op |-> "cancel_timer", by |-> timer_thread, value |-> 1]
    /\ UNCHANGED <<timer_workers, timer_events, timer_thread,
                   timer_cancel_event, timer_state, clock>>
    /\ UNCHANGED notTimerVars

\* get_remaining: None (value -1) or max(0.0, _duration - elapsed)
GetRemaining ==
    LET remaining == timer_state.duration - (clock - timer_state.start)
    IN  /\ fg.pc = "idle"
        /\ answer' = IF timer_state.start = -1 \/ timer_state.duration = -1
                      THEN [op |-> "get_remaining", by |-> 0, value |-> -1]
                      ELSE [op |-> "get_remaining", by |-> timer_state.by,
                            value |-> IF remaining < 0 THEN 0 ELSE remaining]
        /\ UNCHANGED <<timer_workers, timer_events, timer_thread,
                       timer_cancel_event, timer_state, fg, clock>>
        /\ UNCHANGED notTimerVars

\* _timer_worker: "with _lock: _start_time = time.monotonic(); _duration = seconds"
TimerWorkerBegin ==
    \E w \in DOMAIN timer_workers :
        /\ timer_workers[w].pc = "started"
        /\ timer_state' = [start |-> clock, duration |-> timer_workers[w].seconds,
                           by |-> w]
        /\ timer_workers' = [timer_workers EXCEPT ![w].pc = "waiting",
                                                  ![w].since = clock]
        /\ UNCHANGED <<timer_events, timer_thread, timer_cancel_event, fg,
                       answer, clock>>
        /\ UNCHANGED notTimerVars

TimerWorkerCancelled_keeps_due_time ==
    \E w \in DOMAIN timer_workers :
        /\ timer_workers[w].pc = "waiting"
        /\ timer_workers[w].cancel_ev \in timer_events
        /\ timer_workers' = [timer_workers EXCEPT ![w].pc = "done"]
        /\ UNCHANGED <<timer_events, timer_thread, timer_cancel_event,
                       timer_state, fg, answer, clock>>
        /\ UNCHANGED notTimerVars

\* cancel_ev.wait(timeout=seconds) returns True; the state is cleared
TimerWorkerCancelled ==
    \E w \in DOMAIN timer_workers :
        /\ timer_workers[w].pc = "waiting"
        /\ timer_workers[w].cancel_ev \in timer_events
        /\ timer_state' = NoTimer
        /\ timer_workers' = [timer_workers EXCEPT ![w].pc = "done"]
        /\ UNCHANGED <<timer_events, timer_thread, timer_cancel_event, fg,
                       answer, clock>>
        /\ UNCHANGED notTimerVars

\* cancel_ev.wait(timeout=seconds) returns False: the timer has run out
TimerWorkerExpires ==
    \E w \in DOMAIN timer_workers :
        /\ timer_workers[w].pc = "waiting"
        /\ timer_workers[w].cancel_ev \notin timer_events
        /\ clock >= timer_workers[w].since + timer_workers[w].seconds
        /\ timer_workers' = [timer_workers EXCEPT
                                ![w].pc = "beep",
                                ![w].fired = timer_workers[w].fired + 1]
        /\ UNCHANGED <<timer_events, timer_thread, timer_cancel_event,
                       timer_state, fg, answer, clock>>
        /\ UNCHANGED notTimerVars

\* _beep() returns
TimerWorkerBeep ==
    \E w \in DOMAIN timer_workers :
        /\ timer_workers[w].pc = "beep"
        /\ timer_workers' = [timer_workers EXCEPT ![w].pc = "speak"]
        /\ UNCHANGED <<timer_events, timer_thread, timer_cancel_event,
                       timer_state, fg, answer, clock>>
        /\ UNCHANGED notTimerVars

TimerWorkerFinish_keeps_due_time ==
    \E w \in DOMAIN timer_workers :
        /\ timer_workers[w].pc = "speak"
        /\ timer_workers' = [timer_workers EXCEPT ![w].pc = "done"]
        /\ UNCHANGED <<timer_events, timer_thread, timer_cancel_event,
                       timer_state, fg, answer, clock>>
        /\ UNCHANGED notTimerVars

\* _speak(...), then "with _lock: _start_time = None; _duration = None"
TimerWorkerFinish ==
    \E w \in DOMAIN timer_workers :
        /\ timer_workers[w].pc = "speak"
        /\ timer_state' = NoTimer
        /\ timer_workers' = [timer_workers EXCEPT ![w].pc = "done"]
        /\ UNCHANGED <<timer_events, timer_thread, timer_cancel_event, fg,
                       answer, clock>>
        /\ UNCHANGED notTimerVars

\* a step that is due at once: time does not pass before it is taken
TimerUrgent ==
    \/ fg.pc \in {"start_create", "cancel_return"}
    \/ /\ fg.pc \in {"start_join", "cancel_join"}
       /\ ~is_alive(timer_thread) \/ clock >= fg.since + JOIN_TIMEOUT
    \/ \E w \in DOMAIN timer_workers :
          \/ timer_workers[w].pc \in {"started", "speak"}
          \/ /\ timer_workers[w].pc = "waiting"
             /\ \/ timer_workers[w].cancel_ev \in timer_events
                \/ clock >= timer_workers[w].since + timer_workers[w].seconds

\* one second passes
TimerTick ==
    /\ clock < MaxNow
    /\ ~TimerUrgent
    /\ clock' = clock + 1
    /\ UNCHANGED timerVars
    /\ UNCHANGED notTimerVars

NextTimer ==
    \/ StartTimerCall
    \/ JoinReturns
    \/ StartTimerCreate
    \/ CancelTimerCall
    \/ CancelTimerReturn
    \/ GetRemaining
    \/ TimerWorkerBegin
    \/ TimerWorkerCancelled
    \/ TimerWorkerExpires
    \/ TimerWorkerBeep
    \/ TimerWorkerFinish
    \/ TimerTick

SpecTimer == InitTimer /\ [][NextTimer]_vars

\* The threads of the timer scheduler run and time passes: every step that a
\* worker thread or the conversation thread inside a call can take is
\* eventually taken.  Nothing obliges the user to start or cancel a timer or
\* to ask for the remaining time.
SpecTimerLive ==
    /\ InitTimer
    /\ [][NextTimer]_vars
    /\ WF_vars(JoinReturns)
    /\ WF_vars(StartTimerCreate)
    /\ WF_vars(CancelTimerReturn)
    /\ WF_vars(TimerWorkerBegin)
    /\ WF_vars(TimerWorkerCancelled)
    /\ WF_vars(TimerWorkerExpires)
    /\ WF_vars(TimerWorkerBeep)
    /\ WF_vars(TimerWorkerFinish)
    /\ WF_vars(TimerTick)

\* ---------------------------------------------------------------------------
\* Properties of the timer scheduler (SpecTimer)

\* C3: at most one worker of the kind is live (pending or firing) at any
\* time: a start replaces the previous worker.
C3_AtMostOneLiveWorker ==
    Cardinality({w \in DOMAIN timer_workers : is_alive(w)}) <= 1

\* C4: when the due time of a task is visible, every worker started before
\* that task has stopped; and a status query answered after a start never
\* reports the due time of an earlier task.
C4_PreviousStoppedBeforeNewDueTime ==
    /\ \A w \in DOMAIN timer_workers :
          w < timer_state.by => timer_workers[w].pc = "done"
    /\ (answer.op = "get_remaining" /\ answer.by # 0)
          => answer.by = timer_thread

\* C13: a remaining time that get_remaining reports is never negative, and
\* of two status calls with no start or cancel call between them the second
\* does not report more remaining time than the first.
C13_RemainingNeverIncreases ==
    /\ []((answer.op = "get_remaining" /\ answer.value # -1)
            => answer.value >= 0)
    /\ [][(/\ GetRemaining
           /\ answer.op = "get_remaining"
           /\ answer.value # -1
           /\ answer'.value # -1)
            => answer'.value <= answer.value]_vars

\* C15: a timer worker that waits for a due time within the horizon either
\* has its cancellation event set (by a cancel or by the start that replaces
\* it) or eventually ends after having fired exactly once, with the shared
\* start time and duration cleared, so that get_remaining reports no timer;
\* and no worker ever fires twice.
C15_StartedTimerFiresOnce ==
    /\ [](\A w \in DOMAIN timer_workers : timer_workers[w].fired <= 1)
    /\ \A w \in 1..MaxTimers :
          (/\ w \in DOMAIN timer_workers
           /\ timer_workers[w].pc = "waiting"
           /\ timer_workers[w].since + timer_workers[w].seconds <= MaxNow)
          ~> (\/ /\ w \in DOMAIN timer_workers
                 /\ timer_workers[w].cancel_ev \in timer_events
              \/ /\ w \in DOMAIN timer_workers
                 /\ timer_workers[w].pc = "done"
                 /\ timer_workers[w].fired = 1
                 /\ timer_state = NoTimer)

\* a timer that nobody cancelled or replaced has fired and cleared the state
C15_Witness ==
    \E w \in DOMAIN timer_workers :
        /\ timer_workers[w].pc = "done"
        /\ timer_workers[w].fired = 1
        /\ timer_workers[w].cancel_ev \notin timer_events
        /\ timer_state = NoTimer

\* ---------------------------------------------------------------------------
\* utils/notice_thread.py and the NoticeRecorder threads of core/handlers.py.
\* The conversation thread starts NoticeRecorder threads
\* (handle_notice_recording) and calls cancel_notice and get_notice_status;
\* every NoticeRecorder thread runs _record_and_schedule, which calls
\* schedule_notice; every NoticeWorker thread runs _notice_worker.  clock is
\* time.monotonic() in whole seconds; durations are rounded down.
NoticeDelays == {1}

\* record_notice(duration=7.0), and the clip it leaves to play back
NOTICE_RECORD_SECONDS == 7

\* time.sleep(0.3) and time.sleep(0.9) around the announcement
NOTICE_ANNOUNCE_SECONDS == 1

\* _notice_thread.join(timeout=1.0)
NOTICE_JOIN_TIMEOUT == 1

notTimerNoticeVars == <<state, assistant_ctx, pin_audio_buffer, alarm_time,
                        effects, auth, recorders, call, timer_workers,
                        timer_events, timer_thread, timer_cancel_event,
                        timer_state, alarm_checker, alarm_log, heard, locks>>

\* Thread.is_alive() of a NoticeWorker thread
notice_is_alive(w) == w # 0 /\ notice_workers[w].pc # "done"

InitNotice ==
    /\ state = "ACTIVE"
    /\ assistant_ctx = InitCtx
    /\ pin_audio_buffer = <<>>
    /\ alarm_time = <<>>
    /\ clock = 0
    /\ effects = <<>>
    /\ auth = <<>>
    /\ recorders = <<>>
    /\ call = NoCall
    /\ timer_workers = <<>>
    /\ timer_events = {}
    /\ timer_thread = 0
    /\ timer_cancel_event = 0
    /\ timer_state = NoTimer
    /\ fg = FgIdle
    /\ answer = NoAnswer
    /\ NoticeIdle
    /\ AlarmIdle
    /\ LocksIdle
    /\ RouteIdle

\* handle_notice_recording: "threading.Thread(target=_record_and_schedule,
\* ...).start()" with the delay and the label it took from assistant_ctx
NoticeRecorderStart ==
    \E delay \in NoticeDelays :
        /\ fg.pc = "idle"
        /\ Len(notice_recorders) < MaxNotices
        /\ notice_recorders' = Append(notice_recorders,
                                  [pc |-> "recording", delay |-> delay,
                                   label |-> <<delay, "second">>,
                                   since |-> clock, joined |-> 0,
                                   spoke |-> "nothing"])
        /\ UNCHANGED <<notice_workers, notice_events, notice_thread,
                       notice_cancel_event, notice_state, notice_files, fg,
                       answer, clock>>
        /\ UNCHANGED notTimerNoticeVars

\* record_notice returns the path of the clip it wrote
RecordNoticeDone ==
    \E r \in DOMAIN notice_recorders :
        /\ notice_recorders[r].pc = "recording"
        /\ clock >= notice_recorders[r].since + NOTICE_RECORD_SECONDS
        /\ notice_files' = notice_files \cup {r}
        /\ notice_recorders' = [notice_recorders EXCEPT ![r].pc = "schedule",
                                                        ![r].since = 0]
        /\ UNCHANGED <<notice_workers, notice_events, notice_thread,
                       notice_cancel_event, notice_state, fg, answer, clock>>
        /\ UNCHANGED notTimerNoticeVars

RecordNoticeFails_drops_pending ==
    \E r \in DOMAIN notice_recorders :
        /\ notice_recorders[r].pc = "recording"
        /\ notice_recorders' = [notice_recorders EXCEPT
                                    ![r].pc = "failed", ![r].since = 0,
                                    ![r].spoke = "notice_not_recorded"]
        /\ notice_state' = NoNotice
        /\ notice_files' \in {notice_files, notice_files \cup {r}}
        /\ UNCHANGED <<notice_workers, notice_events, notice_thread,
                       notice_cancel_event, fg, answer, clock>>
        /\ UNCHANGED notTimerNoticeVars

\* record_notice catches an exception and returns None; _record_and_schedule
\* speaks the error and ends.  The exception comes from the capture, before
\* the temporary file is made, or from the writing of the file, which is
\* then left behind (delete=False).
RecordNoticeFails ==
    \E r \in DOMAIN notice_recorders :
        /\ notice_recorders[r].pc = "recording"
        /\ notice_recorders' = [notice_recorders EXCEPT
                                    ![r].pc = "failed", ![r].since = 0,
                                    ![r].spoke = "notice_not_recorded"]
        /\ notice_files' \in {notice_files, notice_files \cup {r}}
        /\ UNCHANGED <<notice_workers, notice_events, notice_thread,
                       notice_cancel_event, notice_state, fg, answer, clock>>
        /\ UNCHANGED notTimerNoticeVars

\* schedule_notice, up to the join: "if _notice_thread and
\* _notice_thread.is_alive(): _cancel_event.set(); _notice_thread.join(1.0)"
ScheduleNoticeCall ==
    \E r \in DOMAIN notice_recorders :
        /\ notice_recorders[r].pc = "schedule"
        /\ IF notice_is_alive(notice_thread)
           THEN /\ notice_events' = notice_events \cup {notice_cancel_event}
                /\ notice_recorders' =
                      [notice_recorders EXCEPT ![r].pc = "join",
                                               ![r].since = clock,
                                               ![r].joined = notice_thread]
           ELSE /\ notice_events' = notice_events
                /\ notice_recorders' = [notice_recorders EXCEPT ![r].pc = "set"]
        /\ UNCHANGED <<notice_workers, notice_thread, notice_cancel_event,
                       notice_state, notice_files, fg, answer, clock>>
        /\ UNCHANGED notTimerNoticeVars

\* the join of schedule_notice returns: thread ended, or timeout run out
ScheduleNoticeJoined ==
    \E r \in DOMAIN notice_recorders :
        /\ notice_recorders[r].pc = "join"
        /\ \/ ~notice_is_alive(notice_recorders[r].joined)
           \/ clock >= notice_recorders[r].since + NOTICE_JOIN_TIMEOUT
        /\ notice_recorders' = [notice_recorders EXCEPT ![r].pc = "set",
                                                        ![r].since = 0,
                                                        ![r].joined = 0]
        /\ UNCHANGED <<notice_workers, notice_events, notice_thread,
                       notice_cancel_event, notice_state, notice_files, fg,
                       answer, clock>>
        /\ UNCHANGED notTimerNoticeVars

\* schedule_notice: a fresh Event, then "with _lock:" the file, the due time
\* and the label
ScheduleNoticeSet ==
    \E r \in DOMAIN notice_recorders :
        /\ notice_recorders[r].pc = "set"
        /\ notice_cancel_event' = r
        /\ notice_state' = [file |-> r, eta |-> clock + notice_recorders[r].delay,
                            label |-> notice_recorders[r].label]
        /\ notice_recorders' = [notice_recorders EXCEPT ![r].pc = "create"]
        /\ UNCHANGED <<notice_workers, notice_events, notice_thread,
                       notice_files, fg, answer, clock>>
        /\ UNCHANGED notTimerNoticeVars

\* schedule_notice: the new Thread with args (filepath, delay, _cancel_event)
\* is started; _record_and_schedule speaks the confirmation and ends
ScheduleNoticeCreate ==
    \E r \in DOMAIN notice_recorders :
        /\ notice_recorders[r].pc = "create"
        /\ notice_workers' = Append(notice_workers,
                                [pc |-> "waiting",
                                 delay |-> notice_recorders[r].delay,
                                 cancel_ev |-> notice_cancel_event,
                                 file |-> r, since |-> clock,
                                 fired |-> 0, played |-> FALSE])
        /\ notice_thread' = Len(notice_workers) + 1
        /\ notice_recorders' = [notice_recorders EXCEPT
                                    ![r].pc = "scheduled",
                                    ![r].spoke = "notice_recorded"]
        /\ UNCHANGED <<notice_events, notice_cancel_event, notice_state,
                       notice_files, fg, answer, clock>>
        /\ UNCHANGED notTimerNoticeVars

NoticeWorkerCancelled_keeps_clip ==
    \E w \in DOMAIN notice_workers :
        /\ notice_workers[w].pc = "waiting"
        /\ notice_workers[w].cancel_ev \in notice_events
        /\ notice_state' = NoNotice
        /\ notice_workers' = [notice_workers EXCEPT ![w].pc = "done",
                                                    ![w].since = 0]
        /\ UNCHANGED <<notice_recorders, notice_events, notice_thread,
                       notice_cancel_event, notice_files, fg, answer, clock>>
        /\ UNCHANGED notTimerNoticeVars

\* _notice_worker: cancel_ev.wait(timeout=delay) returns True; the shared
\* state is cleared and the clip is deleted
NoticeWorkerCancelled ==
    \E w \in DOMAIN notice_workers :
        /\ notice_workers[w].pc = "waiting"
        /\ notice_workers[w].cancel_ev \in notice_events
        /\ notice_state' = NoNotice
        /\ notice_files' = notice_files \ {notice_workers[w].file}
        /\ notice_workers' = [notice_workers EXCEPT ![w].pc = "done",
                                                    ![w].since = 0]
        /\ UNCHANGED <<notice_recorders, notice_events, notice_thread,
                       notice_cancel_event, fg, answer, clock>>
        /\ UNCHANGED notTimerNoticeVars

\* cancel_ev.wait(timeout=delay) returns False: the shared state is cleared
\* and the worker fires (chime, pause, announcement, pause)
NoticeWorkerExpires ==
    \E w \in DOMAIN notice_workers :
        /\ notice_workers[w].pc = "waiting"
        /\ notice_workers[w].cancel_ev \notin notice_events
        /\ clock >= notice_workers[w].since + notice_workers[w].delay
        /\ notice_state' = NoNotice
        /\ notice_workers' = [notice_workers EXCEPT
                                 ![w].pc = "announce", ![w].since = clock,
                                 ![w].fired = notice_workers[w].fired + 1]
        /\ UNCHANGED <<notice_recorders, notice_events, notice_thread,
                       notice_cancel_event, notice_files, fg, answer, clock>>
        /\ UNCHANGED notTimerNoticeVars

\* _play_wav(filepath) opens the clip and plays it
NoticeWorkerPlay ==
    \E w \in DOMAIN notice_workers :
        /\ notice_workers[w].pc = "announce"
        /\ clock >= notice_workers[w].since + NOTICE_ANNOUNCE_SECONDS
        /\ notice_workers' = [notice_workers EXCEPT
                                 ![w].pc = "play", ![w].since = clock,
                                 ![w].played = notice_workers[w].file
                                                   \in notice_files]
        /\ UNCHANGED <<notice_recorders, notice_events, notice_thread,
                       notice_cancel_event, notice_state, notice_files, fg,
                       answer, clock>>
        /\ UNCHANGED notTimerNoticeVars

\* the playback has ended: _delete_file(filepath), and the thread ends
NoticeWorkerFinish ==
    \E w \in DOMAIN notice_workers :
        /\ notice_workers[w].pc = "play"
        /\ clock >= notice_workers[w].since + NOTICE_RECORD_SECONDS
        /\ notice_files' = notice_files \ {notice_workers[w].file}
        /\ notice_workers' = [notice_workers EXCEPT ![w].pc = "done",
                                                    ![w].since = 0]
        /\ UNCHANGED <<notice_recorders, notice_events, notice_thread,
                       notice_cancel_event, notice_state, fg, answer, clock>>
        /\ UNCHANGED notTimerNoticeVars

\* cancel_notice, up to the join, or all of it when no thread is alive
CancelNoticeCall ==
    /\ fg.pc = "idle"
    /\ IF notice_is_alive(notice_thread)
       THEN /\ notice_events' = notice_events \cup {notice_cancel_event}
            /\ fg' = [pc |-> "cancel_notice_join", seconds |-> 0,
                      since |-> clock, joined |-> notice_thread]
            /\ answer' = NoAnswer
       ELSE /\ notice_events' = notice_events
            /\ fg' = FgIdle
            /\ answer' = [op |-> "cancel_notice", by |-> notice_thread,
                          value |-> 0]
    /\ UNCHANGED <<notice_recorders, notice_workers, notice_thread,
                   notice_cancel_event, notice_state, notice_files, clock>>
    /\ UNCHANGED notTimerNoticeVars

\* cancel_notice, after the join: return True
CancelNoticeReturn ==
    /\ fg.pc = "cancel_notice_join"
    /\ \/ ~notice_is_alive(fg.joined)
       \/ clock >= fg.since + NOTICE_JOIN_TIMEOUT
    /\ fg' = FgIdle
    /\ answer' = [op |-> "cancel_notice", by |-> fg.joined, value |-> 1]
    /\ UNCHANGED <<notice_recorders, notice_workers, notice_events,
                   notice_thread, notice_cancel_event, notice_state,
                   notice_files, clock>>
    /\ UNCHANGED notTimerNoticeVars

\* get_notice_status: inactive (value -1) or max(0.0, eta - time.monotonic())
GetNoticeStatus ==
    /\ fg.pc = "idle"
    /\ answer' =
          IF \/ notice_state.eta = -1
             \/ notice_thread # 0 /\ ~notice_is_alive(notice_thread)
          THEN [op |-> "get_notice_status", by |-> notice_thread, value |-> -1]
          ELSE [op |-> "get_notice_status", by |-> notice_thread,
                value |-> IF notice_state.eta - clock < 0 THEN 0
                          ELSE notice_state.eta - clock]
    /\ UNCHANGED <<notice_recorders, notice_workers, notice_events,
                   notice_thread, notice_cancel_event, notice_state,
                   notice_files, fg, clock>>
    /\ UNCHANGED notTimerNoticeVars

\* a step that is due at once: time does not pass before it is taken
NoticeUrgent ==
    \/ /\ fg.pc = "cancel_notice_join"
       /\ \/ ~notice_is_alive(fg.joined)
          \/ clock >= fg.since + NOTICE_JOIN_TIMEOUT
    \/ \E r \in DOMAIN notice_recorders :
          \/ notice_recorders[r].pc \in {"schedule", "set", "create"}
          \/ /\ notice_recorders[r].pc = "recording"
             /\ clock >= notice_recorders[r].since + NOTICE_RECORD_SECONDS
          \/ /\ notice_recorders[r].pc = "join"
             /\ \/ ~notice_is_alive(notice_recorders[r].joined)
                \/ clock >= notice_recorders[r].since + NOTICE_JOIN_TIMEOUT
    \/ \E w \in DOMAIN notice_workers :
          \/ /\ notice_workers[w].pc = "waiting"
             /\ \/ notice_workers[w].cancel_ev \in notice_events
                \/ clock >= notice_workers[w].since + notice_workers[w].delay
          \/ /\ notice_workers[w].pc = "announce"
             /\ clock >= notice_workers[w].since + NOTICE_ANNOUNCE_SECONDS
          \/ /\ notice_workers[w].pc = "play"
             /\ clock >= notice_workers[w].since + NOTICE_RECORD_SECONDS

\* one second passes
NoticeTick ==
    /\ clock < MaxNoticeNow
    /\ ~NoticeUrgent
    /\ clock' = clock + 1
    /\ UNCHANGED <<notice_recorders, notice_workers, notice_events,
                   notice_thread, notice_cancel_event, notice_state,
                   notice_files, fg, answer>>
    /\ UNCHANGED notTimerNoticeVars

NextNotice ==
    \/ NoticeRecorderStart
    \/ RecordNoticeDone
    \/ RecordNoticeFails
    \/ ScheduleNoticeCall
    \/ ScheduleNoticeJoined
    \/ ScheduleNoticeSet
    \/ ScheduleNoticeCreate
    \/ NoticeWorkerCancelled
    \/ NoticeWorkerExpires
    \/ NoticeWorkerPlay
    \/ NoticeWorkerFinish
    \/ CancelNoticeCall
    \/ CancelNoticeReturn
    \/ GetNoticeStatus
    \/ NoticeTick

SpecNotice == InitNotice /\ [][NextNotice]_vars

\* ---------------------------------------------------------------------------
\* Properties of the notice scheduler (SpecNotice)

\* C12: a cancel that finds no live worker returns false and changes nothing
\* of the scheduler; and a cancel called after a cancel has returned, with
\* no start since (the thread the first cancel answered for is still the
\* current one and no schedule_notice is under way), returns false and
\* changes nothing.
C12_CancelReturnsWhetherRunning ==
    [][CancelNoticeCall =>
        /\ ~notice_is_alive(notice_thread)
              => (answer'.value = 0 /\ UNCHANGED noticeVars)
        /\ (/\ answer.op = "cancel_notice"
            /\ answer.by = notice_thread
            /\ \A r \in DOMAIN notice_recorders :
                  notice_recorders[r].pc \in {"recording", "failed", "scheduled"})
              => (/\ answer'.op = "cancel_notice"
                  /\ answer'.value = 0
                  /\ UNCHANGED noticeVars)]_vars

\* C14: a notice worker that is still waiting when its cancellation event is
\* set takes no other step than its exit: it ends without having fired
\* (no chime, no announcement, no playback), the shared file, due time and
\* label are cleared, and its recorded clip is deleted.
C14_CancelledWorkerExitsWithoutFiring ==
    [][\A w \in DOMAIN notice_workers :
        (/\ notice_workers[w].pc = "waiting"
         /\ notice_workers[w].cancel_ev \in notice_events
         /\ notice_workers'[w] # notice_workers[w])
        => (/\ notice_workers'[w].pc = "done"
            /\ notice_workers'[w].fired = 0
            /\ ~notice_workers'[w].played
            /\ notice_state' = NoNotice
            /\ notice_workers[w].file \notin notice_files')]_vars

\* a worker was cancelled while it waited: it has ended, it never fired, and
\* its clip, which did exist, is gone
C14_Witness ==
    \E w \in DOMAIN notice_workers :
        /\ notice_workers[w].pc = "done"
        /\ notice_workers[w].fired = 0
        /\ notice_workers[w].cancel_ev \in notice_events
        /\ notice_recorders[notice_workers[w].file].pc = "scheduled"
        /\ notice_workers[w].file \notin notice_files
        /\ notice_state = NoNotice

\* ---------------------------------------------------------------------------
\* utils/alarm_thread.py: the AlarmChecker thread runs _alarm_checker; the
\* conversation thread calls set_alarm, cancel_alarm and get_alarm.  clock is
\* the wall clock in seconds.  The day of the model is short: it runs through
\* the minutes of WallMinutes, MinuteSeconds each, and starts again.
MinuteSeconds == 60

WallMinutes == << <<7, 0>>, <<7, 1>> >>

\* datetime.now().strftime("%H:%M")
wall_clock(now) == WallMinutes[((now \div MinuteSeconds) % Len(WallMinutes)) + 1]

AlarmTargets == { <<7, 0>>, <<7, 1>> }

\* play_alarm_sound(repeats=4): four bursts of 0.9 s, and the announcement
ALARM_RING_SECONDS == 3

\* time.sleep(1)
ALARM_POLL_SECONDS == 1

notAlarmVars == <<state, assistant_ctx, pin_audio_buffer, effects, auth,
                  recorders, call, timer_workers, timer_events, timer_thread,
                  timer_cancel_event, timer_state, fg, noticeVars, heard,
                  locks>>

InitAlarm ==
    /\ state = "ACTIVE"
    /\ assistant_ctx = InitCtx
    /\ pin_audio_buffer = <<>>
    /\ alarm_time = <<>>
    /\ clock = 0
    /\ effects = <<>>
    /\ auth = <<>>
    /\ recorders = <<>>
    /\ call = NoCall
    /\ timer_workers = <<>>
    /\ timer_events = {}
    /\ timer_thread = 0
    /\ timer_cancel_event = 0
    /\ timer_state = NoTimer
    /\ fg = FgIdle
    /\ answer = NoAnswer
    /\ NoticeIdle
    /\ AlarmIdle
    /\ LocksIdle
    /\ RouteIdle

\* set_alarm(t): "with _lock: _alarm_time = t"
SetAlarm ==
    \E t \in AlarmTargets :
        /\ alarm_log.sets < MaxAlarmSets
        /\ alarm_time' = t
        /\ alarm_log' = [alarm_log EXCEPT !.sets = alarm_log.sets + 1,
                                          !.set_since_ring = TRUE]
        /\ answer' = NoAnswer
        /\ UNCHANGED <<alarm_checker, clock>>
        /\ UNCHANGED notAlarmVars

\* cancel_alarm(): "with _lock: _alarm_time = None"; it returns None
CancelAlarm ==
    /\ alarm_time' = <<>>
    /\ answer' = [op |-> "cancel_alarm", by |-> 0, value |-> <<>>]
    /\ UNCHANGED <<alarm_checker, alarm_log, clock>>
    /\ UNCHANGED notAlarmVars

\* get_alarm(): "with _lock: return _alarm_time"
GetAlarm ==
    /\ answer' = [op |-> "get_alarm", by |-> 0, value |-> alarm_time]
    /\ UNCHANGED <<alarm_time, alarm_checker, alarm_log, clock>>
    /\ UNCHANGED notAlarmVars

AlarmCheckerRung_keeps_time ==
    /\ alarm_checker.pc = "ringing"
    /\ clock >= alarm_checker.wake
    /\ alarm_checker' = [pc |-> "sleeping", wake |-> clock + ALARM_POLL_SECONDS]
    /\ UNCHANGED <<alarm_time, alarm_log, answer, clock>>
    /\ UNCHANGED notAlarmVars

\* _alarm_checker, one turn of the loop up to the ringing or to the sleep:
\* "target = _alarm_time; if target: now = ...; if now == target:"
AlarmCheckerPoll ==
    /\ alarm_checker.pc = "sleeping"
    /\ clock >= alarm_checker.wake
    /\ IF alarm_time # <<>> /\ wall_clock(clock) = alarm_time
       THEN /\ alarm_checker' = [pc |-> "ringing",
                                 wake |-> clock + ALARM_RING_SECONDS]
            /\ alarm_log' = [alarm_log EXCEPT !.rings = alarm_log.rings + 1,
                                              !.set_since_ring = FALSE]
       ELSE /\ alarm_checker' = [pc |-> "sleeping",
                                 wake |-> clock + ALARM_POLL_SECONDS]
            /\ alarm_log' = alarm_log
    /\ UNCHANGED <<alarm_time, answer, clock>>
    /\ UNCHANGED notAlarmVars

\* _alarm_checker: the sound and the announcement have ended;
\* "with _lock: _alarm_time = None", then time.sleep(1)
AlarmCheckerRung ==
    /\ alarm_checker.pc = "ringing"
    /\ clock >= alarm_checker.wake
    /\ alarm_time' = <<>>
    /\ alarm_checker' = [pc |-> "sleeping", wake |-> clock + ALARM_POLL_SECONDS]
    /\ UNCHANGED <<alarm_log, answer, clock>>
    /\ UNCHANGED notAlarmVars

\* one second passes, unless the checker is due
AlarmTick ==
    /\ clock < MaxAlarmNow
    /\ clock < alarm_checker.wake
    /\ clock' = clock + 1
    /\ UNCHANGED <<alarm_time, alarm_checker, alarm_log, answer>>
    /\ UNCHANGED notAlarmVars

NextAlarm ==
    \/ SetAlarm
    \/ CancelAlarm
    \/ GetAlarm
    \/ AlarmCheckerPoll
    \/ AlarmCheckerRung
    \/ AlarmTick

SpecAlarm == InitAlarm /\ [][NextAlarm]_vars

\* ---------------------------------------------------------------------------
\* Properties of the alarm checker (SpecAlarm)

\* C16: the alarm rings at most once for each call of set_alarm, and once a
\* ringing has ended with no set_alarm since it began, the alarm time is
\* cleared, which is what get_alarm then returns, so that no later poll, in
\* the same minute or on a later day, rings again.
C16_AlarmIsOneShot ==
    /\ alarm_log.rings <= alarm_log.sets
    /\ (/\ alarm_log.rings > 0
        /\ ~alarm_log.set_since_ring
        /\ alarm_checker.pc # "ringing")
          => alarm_time = <<>>

\* the alarm rang once at 07:00, the same minute of the next day has come
\* without another ringing, and get_alarm has returned None
C16_Witness ==
    /\ alarm_log.sets = 1 /\ alarm_log.rings = 1
    /\ alarm_checker.pc = "sleeping"
    /\ alarm_time = <<>>
    /\ clock >= MinuteSeconds * Len(WallMinutes)
    /\ wall_clock(clock) = <<7, 0>>
    /\ answer.op = "get_alarm" /\ answer.value = <<>>

\* ---------------------------------------------------------------------------
\* core/handlers.py, handle_active_command as a function of the utterance
\* (SpecRoute): one call on a text drawn from the command vocabulary

MaxRouteLen == 3

\* one keyword of each handler, a number, and the modifiers that select the
\* cancel and status branches
RouteWords == {"dhanyavaad", "samay", "volume", "timer", "plus", "notice",
               "yaad", "alarm", "band", "kab", "das"}

RouteTexts == UNION { [1..n -> RouteWords] : n \in 1..MaxRouteLen }

\* get_alarm() at the time of the call: None, or 07:00
RouteAlarms == {<<>>, <<7, 0>>}

InitRoute ==
    /\ state = "ACTIVE"
    /\ assistant_ctx = InitCtx
    /\ pin_audio_buffer = <<>>
    /\ alarm_time \in RouteAlarms
    /\ clock = 0
    /\ effects = <<>>
    /\ auth = <<>>
    /\ recorders = <<>>
    /\ call = NoCall
    /\ timer_workers = <<>>
    /\ timer_events = {}
    /\ timer_thread = 0
    /\ timer_cancel_event = 0
    /\ timer_state = NoTimer
    /\ fg = FgIdle
    /\ answer = NoAnswer
    /\ NoticeIdle
    /\ AlarmIdle
    /\ LocksIdle
    /\ \E text \in RouteTexts, sch \in SchedEnvs :
          heard = [text |-> text, sch |-> sch, alarm |-> alarm_time,
                   done |-> FALSE]

\* the assignments of "_state = handle_active_command(text)", d being what
\* the handler hands back
Routed(d) ==
    /\ state' = d.state
    /\ assistant_ctx' = d.ctx
    /\ alarm_time' = d.alarm
    /\ effects' = d.eff
    /\ heard' = [heard EXCEPT !.done = TRUE]
    /\ UNCHANGED <<pin_audio_buffer, clock, auth, recorders, call>>
    /\ UNCHANGED <<timerVars, noticeVars, alarmVars, lockVars>>

HandleActiveCommand ==
    /\ state = "ACTIVE"
    /\ ~heard.done
    /\ Routed(handle_active_command(heard.text, assistant_ctx, alarm_time,
                                    clock, heard.sch))

NextRoute == HandleActiveCommand

SpecRoute == InitRoute /\ [][NextRoute]_vars

\* the exclusive handlers in the order of the documented priority
RouteOrder == <<"volume", "timer", "math", "notice", "alarm_cancel",
                "alarm_status", "alarm_set">>

\* whether a handler, called alone on the text, takes it
RouteMatches(h, text, alarm, sch) ==
    CASE h = "volume" -> extract_volume_intent(text) # "none"
      [] h = "timer" -> extract_timer_intent(text).action # "none"
      [] h = "math" -> extract_math_intent(text)
      [] h = "notice" ->
            extract_notice_intent(text, sch.clock_delay).action # "none"
      [] h = "alarm_cancel" -> handle_alarm_cancel(text, alarm).matched
      [] h = "alarm_status" -> handle_alarm_status(text, alarm).matched
      [] h = "alarm_set" -> HasAny(text, ALARM_KEYWORDS)

\* what a handler, called alone on the text, speaks and calls
RouteEffects(h, text, alarm, sch) ==
    CASE h = "volume" -> handle_volume(text).eff
      [] h = "timer" -> handle_timer(text, sch).eff
      [] h = "math" -> handle_math(text).eff
      [] h = "notice" -> handle_notice(text, InitCtx, sch).eff
      [] h = "alarm_cancel" -> handle_alarm_cancel(text, alarm).eff
      [] h = "alarm_status" -> handle_alarm_status(text, alarm).eff
      [] h = "alarm_set" -> handle_alarm_set(text, InitCtx, 0).eff
      [] OTHER -> <<>>

\* the place in RouteOrder of the first handler that takes the text, 0 if none
RouteWinner(text, alarm, sch) ==
    LET taking == {k \in DOMAIN RouteOrder :
                     RouteMatches(RouteOrder[k], text, alarm, sch)}
    IN  IF taking = {} THEN 0
        ELSE CHOOSE k \in taking : \A j \in taking : k <= j

\* the state the documented priority gives: w is the place of the winner
RouteState(w, text, sch) ==
    IF w = 0 THEN "ACTIVE"
    ELSE IF RouteOrder[w] = "alarm_set" THEN "AWAITING_PIN"
    ELSE IF RouteOrder[w] = "notice"
            /\ extract_notice_intent(text, sch.clock_delay).action
                 \in {"start_duration", "start_clock"}
    THEN "RECORDING_NOTICE"
    ELSE "ACTIVE"

\* the effects the documented priority gives: the time and date replies, then
\* those of the winner alone
RouteSpoken(w, text, alarm, sch) ==
    time_date(text)
    \o (IF w = 0 THEN <<>> ELSE RouteEffects(RouteOrder[w], text, alarm, sch))

\* the handler at place w of RouteOrder decided, and no other one wrote
C17_Decided(w, text, alarm, sch) ==
    /\ state = RouteState(w, text, sch)
    /\ effects = RouteSpoken(w, text, alarm, sch)
    /\ alarm_time = IF w # 0 /\ RouteOrder[w] = "alarm_cancel" THEN <<>>
                    ELSE alarm
    /\ assistant_ctx.pending_alarm_text =
          IF w # 0 /\ RouteOrder[w] = "alarm_set" THEN text ELSE <<>>
    /\ (w = 0 \/ RouteOrder[w] # "notice") =>
          assistant_ctx.pending_notice_delay = NoDelay

\* C17: in ACTIVE, handle_active_command decides by the priority exit >
\* time/date (always checked, ends nothing) > volume > timer > math > notice >
\* alarm cancel > alarm status > alarm set.  An utterance with the exit word
\* ends in SLEEPING with the farewell only; otherwise the time and date
\* replies are followed by the effects of the first handler of that order
\* that takes the text, called alone, and by nothing of a later handler, and
\* that handler decides the next state.  An utterance that the notice
\* grammar takes and that holds an alarm keyword never ends in AWAITING_PIN
\* and stores no pending alarm text.
C17_PriorityOrder ==
    heard.done =>
        /\ Has(heard.text, EXIT_WORD) =>
              /\ state = "SLEEPING"
              /\ effects = <<Speak("farewell")>>
              /\ assistant_ctx = InitCtx
              /\ alarm_time = heard.alarm
        /\ ~Has(heard.text, EXIT_WORD) =>
              C17_Decided(RouteWinner(heard.text, heard.alarm, heard.sch),
                          heard.text, heard.alarm, heard.sch)
        /\ (/\ RouteMatches("notice", heard.text, heard.alarm, heard.sch)
            /\ HasAny(heard.text, ALARM_KEYWORDS)) =>
              /\ state # "AWAITING_PIN"
              /\ assistant_ctx.pending_alarm_text = <<>>
              /\ \A i \in DOMAIN effects : effects[i] # Speak("pin_prompt")
        /\ state = "AWAITING_PIN" =>
              /\ ~Has(heard.text, EXIT_WORD)
              /\ \A k \in 1..(Len(RouteOrder) - 1) :
                    ~RouteMatches(RouteOrder[k], heard.text, heard.alarm,
                                  heard.sch)

\* the call was made on a text that the notice grammar takes as a start and
\* that holds the keyword shared with the alarm handler: it ends in
\* RECORDING_NOTICE
C17_Witness ==
    /\ heard.done
    /\ Has(heard.text, "yaad")
    /\ Has(heard.text, "das")
    /\ Has(heard.text, "samay")
    /\ state = "RECORDING_NOTICE"
    /\ effects[1] = Speak("time")

\* ---------------------------------------------------------------------------
\* Properties of the session (Spec): the SLEEPING and RECORDING_NOTICE rows

\* what callback leaves alone when it handles an utterance in SLEEPING
C18_NothingElseChanges ==
    /\ auth' = <<>>
    /\ UNCHANGED <<assistant_ctx, pin_audio_buffer, alarm_time, clock,
                   recorders, call>>
    /\ UNCHANGED backgroundVars

\* C18: in SLEEPING, an utterance that callback processes moves the session
\* to ACTIVE exactly when it holds the wake word, and then only the greeting
\* is spoken; any other utterance, a valid command included, leaves SLEEPING
\* with nothing spoken, nothing called, no Auth Gate result, no
\* NoticeRecorder thread, and the context, the alarm time and the schedulers
\* as they were.
C18_SleepingHearsWakeWordOnly ==
    /\ [](state = "SLEEPING" =>
            \A text \in Utterances \ {<<>>}, sch \in SchedEnvs :
                /\ dispatch(text, 0, QuietEnv, sch).state = "ACTIVE"
                      <=> Has(text, WAKE_WORD)
                /\ dispatch(text, 0, QuietEnv, sch).state
                      \in {"ACTIVE", "SLEEPING"}
                /\ ~Has(text, WAKE_WORD) =>
                      dispatch(text, 0, QuietEnv, sch)
                        = Outcome("SLEEPING", assistant_ctx, alarm_time, <<>>))
    /\ [][(state = "SLEEPING" /\ Callback) =>
            /\ C18_NothingElseChanges
            /\ \/ state' = "ACTIVE" /\ effects' = <<Speak("greeting")>>
               \/ state' = "SLEEPING" /\ effects' = <<>>]_vars

\* the session went back to SLEEPING with an alarm set and was woken again
C18_Witness ==
    /\ state = "ACTIVE"
    /\ effects = <<Speak("greeting")>>
    /\ alarm_time # <<>>

\* C19: in RECORDING_NOTICE, any utterance that callback processes returns
\* the session to ACTIVE in the same step, starts one NoticeRecorder thread
\* that is given exactly the delay and the label stored by the notice
\* request, and clears the stored delay and label.
C19_RecorderGetsStoredDelay ==
    [][(state = "RECORDING_NOTICE" /\ Callback) =>
          /\ state' = "ACTIVE"
          /\ Len(recorders') = Len(recorders) + 1
          /\ recorders'[Len(recorders')].delay
                = assistant_ctx.pending_notice_delay
          /\ recorders'[Len(recorders')].label
                = assistant_ctx.pending_notice_label
          /\ assistant_ctx'.pending_notice_delay = NoDelay
          /\ assistant_ctx'.pending_notice_label = <<>>]_vars

\* ---------------------------------------------------------------------------
\* Properties of the notice scheduler (SpecNotice): the failed recording

\* C20: when record_notice fails, the NoticeRecorder thread speaks the error
\* and ends; that step leaves the worker thread, the cancellation event and
\* the stored file, due time and label, a pending notice included, as they
\* were, and the thread never schedules afterwards: no worker is ever made
\* for its recording.
C20_FailedRecordingSchedulesNothing ==
    /\ [](\A r \in DOMAIN notice_recorders :
            notice_recorders[r].pc = "failed" =>
                /\ notice_recorders[r].spoke = "notice_not_recorded"
                /\ notice_state.file # r
                /\ \A w \in DOMAIN notice_workers : notice_workers[w].file # r)
    /\ [][\A r \in DOMAIN notice_recorders :
            /\ (/\ notice_recorders[r].pc = "recording"
                /\ notice_recorders'[r].pc # "schedule"
                /\ notice_recorders'[r] # notice_recorders[r])
               => (/\ notice_recorders'[r].pc = "failed"
                   /\ UNCHANGED <<notice_workers, notice_events, notice_thread,
                                  notice_cancel_event, notice_state>>)
            /\ notice_recorders[r].pc = "failed" =>
                  notice_recorders'[r] = notice_recorders[r]]_vars

\* a notice is pending, its worker waits, and a later recording has failed
C20_Witness ==
    \E r \in DOMAIN notice_recorders :
        /\ notice_recorders[r].pc = "failed"
        /\ notice_is_alive(notice_thread)
        /\ notice_workers[notice_thread].pc = "waiting"
        /\ notice_state.eta >= 0
        /\ notice_state.file # r
        /\ notice_state.file \in notice_files

\* ---------------------------------------------------------------------------
\* Properties of the session (Spec): the PIN audio buffer

\* the samples of the blocks in the buffer, counted block size by block size
C21_SamplesIn(buffer) ==
    LET Count(size) == Cardinality({i \in DOMAIN buffer : buffer[i] = size})
    IN  4000 * Count(4000) + 8000 * Count(8000)

\* C21: the PIN audio buffer grows only by one block appended at its end in
\* a callback taken in AWAITING_PIN, so that it is empty in every other
\* state; the callback that handles an utterance in AWAITING_PIN reads all
\* the samples appended so far, its own block included, and leaves the
\* buffer empty in the same step: the read and the clear are one step of
\* the only thread that touches the buffer.
C21_BufferFilledAndDrainedInAwaitingPin ==
    /\ [](state # "AWAITING_PIN" => pin_audio_buffer = <<>>)
    /\ [](state = "AWAITING_PIN" =>
            \A block \in BlockSizes :
                /\ Appended(block) = Append(pin_audio_buffer, block)
                /\ get_pin_audio(Appended(block))
                      = C21_SamplesIn(pin_audio_buffer) + block)
    /\ [][pin_audio_buffer' # pin_audio_buffer =>
            /\ state = "AWAITING_PIN"
            /\ \/ /\ pin_audio_buffer' = <<>>
                  /\ Callback
               \/ /\ \E block \in BlockSizes :
                        pin_audio_buffer' = Append(pin_audio_buffer, block)
                  /\ state' = "AWAITING_PIN"]_vars
    /\ [][(state = "AWAITING_PIN" /\ Callback) => pin_audio_buffer' = <<>>]_vars

\* blocks were buffered over more than one callback and then drained by a
\* PIN attempt whose voice check got enough samples to compare
C21_Witness ==
    /\ state = "ACTIVE"
    /\ pin_audio_buffer = <<>>
    /\ auth # <<>>
    /\ \E i \in DOMAIN auth[1].calls : auth[1].calls[i] = "_cosine_similarity"

\* ---------------------------------------------------------------------------
\* The session with a failing collaborator (SpecFault)
\*
\* Neither callback (core/recognizer.py) nor handle_pin_input
\* (core/handlers.py) nor authenticate_user and the voice check
\* (utils/auth/) has a try/except around the calls below, so what they raise
\* leaves callback.
Raise(fn) == [op |-> "raise", arg |-> fn, n |-> 0]

\* load_voice_profile: np.load on a profile file that exists and cannot be
\* read; _extract_mfcc: compute_mfcc on the buffered samples
Faults == {"load_voice_profile", "_extract_mfcc"}

\* authenticate_user gets as far as the failing call: the PIN is right, the
\* MFCC library is there, and for _extract_mfcc the profile was read and
\* the audio is long enough to be compared
fault_reached(fault, spoken_pin, audio, env) ==
    /\ verify_pin(spoken_pin)
    /\ env.mfcc
    /\ fault = "_extract_mfcc" => (env.profile /\ audio >= MinSamples)

\* callback in AWAITING_PIN when the Auth Gate raises: get_pin_audio() and
\* clear_pin_audio() have run, "_state = handle_pin_input(...)" is not
\* completed, and handle_pin_input has not reached the line that clears
\* pending_alarm_text
CallbackRaises ==
    /\ state = "AWAITING_PIN"
    /\ Len(pin_audio_buffer) < MaxBlocks
    /\ \E text \in Utterances, confs \in ConfSamples, block \in BlockSizes,
          env \in VoiceEnvs, fault \in Faults :
        /\ text # <<>> /\ is_meaningful(confs, text, FALSE)
        /\ ~pin_prompt_expired(assistant_ctx, clock)
        /\ ~Has(text, EXIT_WORD)
        /\ fault_reached(fault, text, get_pin_audio(Appended(block)), env)
        /\ pin_audio_buffer' = <<>>
        /\ effects' = <<Call("authenticate_user", 0), Raise(fault)>>
        /\ auth' = <<>>
        /\ UNCHANGED <<state, assistant_ctx, alarm_time, clock, recorders,
                       call>>
        /\ UNCHANGED backgroundVars

NextFault ==
    \/ CallbackPartial
    \/ CallbackDropped
    \/ Callback
    \/ CallbackRaises
    \/ Tick
    \/ AlarmCheckerRing
    \/ NoticeRecorderDone

SpecFault == Init /\ [][NextFault]_vars

\* C22: no callback ends with an error raised to its caller: whatever a
\* collaborator of a handler does, the dispatch step ends by assigning the
\* next session state.
C22_NoErrorLeavesCallback ==
    \A i \in DOMAIN effects : effects[i].op # "raise"

\* ---------------------------------------------------------------------------
\* Unrecognized utterances (Spec)

\* an utterance that holds no wake phrase, no exit phrase, nothing an intent
\* parser or a handler of handle_active_command takes, and not the PIN
Unrecognized(text) ==
    /\ text # <<>>
    /\ ~Has(text, WAKE_WORD)
    /\ ~Has(text, EXIT_WORD)
    /\ time_date(text) = <<>>
    /\ extract_volume_intent(text) = "none"
    /\ extract_timer_intent(text).action = "none"
    /\ ~extract_math_intent(text)
    /\ \A delay \in ClockDelays : extract_notice_intent(text, delay).action = "none"
    /\ ~HasAny(LowerText(text), ALARM_KEYWORDS \cup {"alarm_en"})
    /\ ~verify_pin(text)

\* the unrecognized utterances that pass the quality gates in this state
UnrecognizedHeard ==
    {text \in Utterances :
        /\ Unrecognized(text)
        /\ \E confs \in ConfSamples :
              is_meaningful(confs, text, state # "AWAITING_PIN")}

\* the dispatch step with outcome d leaves the session state, the pending
\* alarm request, the pending notice parameters, the alarm and the
\* schedulers as they are
C23_NoOp(d) ==
    /\ d.state = state
    /\ d.ctx = assistant_ctx
    /\ d.alarm = alarm_time
    /\ d.spawn = <<>>
    /\ \A i \in DOMAIN d.eff : d.eff[i].op # "call"

C23_PinAttempt(d) ==
    /\ d.state = "ACTIVE"
    /\ d.alarm = alarm_time
    /\ d.spawn = <<>>
    /\ IF pin_prompt_expired(assistant_ctx, clock)
       THEN d.ctx = assistant_ctx /\ d.eff = <<Speak("timeout")>>
       ELSE /\ d.ctx = [assistant_ctx EXCEPT !.pending_alarm_text = <<>>]
            /\ d.auth # <<>> /\ ~d.auth[1].authorized
            /\ d.eff[Len(d.eff)] = Speak("alarm_not_set")

\* and in RECORDING_NOTICE: the recording starts with the stored parameters
C23_StartsRecording(d) ==
    /\ d.state = "ACTIVE"
    /\ d.alarm = alarm_time
    /\ d.spawn # <<>>
    /\ d.ctx = [assistant_ctx EXCEPT !.pending_notice_delay = NoDelay,
                                     !.pending_notice_label = <<>>]

C23_ByState(d) ==
    CASE state = "AWAITING_PIN" -> C23_PinAttempt(d)
      [] state = "RECORDING_NOTICE" -> C23_StartsRecording(d)
      [] OTHER -> C23_NoOp(d) /\ d.eff = <<>>

C24_Requested == extract_alarm_intent(assistant_ctx.pending_alarm_text)

\* the first leg: d is the outcome of the alarm utterance text in ACTIVE
C24_AsksForPin(text, d) ==
    /\ d.state = "AWAITING_PIN"
    /\ d.ctx = [assistant_ctx EXCEPT !.pending_alarm_text = text,
                                     !.pin_prompt_time = clock]
    /\ d.alarm = alarm_time
    /\ d.eff = <<Speak("pin_prompt")>>

\* the second leg: d is the outcome of the correct PIN, spoken within the
\* timeout over audio shorter than the minimum
C24_SetsRequested(d) ==
    /\ d.auth # <<>>
    /\ d.auth[1].pin_ok /\ d.auth[1].voice_ok /\ d.auth[1].authorized
    /\ \A i \in DOMAIN d.auth[1].calls :
          d.auth[1].calls[i] \notin {"_extract_mfcc", "_cosine_similarity"}
    /\ d.state = "ACTIVE"
    /\ d.ctx = [assistant_ctx EXCEPT !.pending_alarm_text = <<>>]
    /\ d.spawn = <<>>
    /\ IF C24_Requested # <<>>
       THEN /\ d.alarm = C24_Requested
            /\ d.eff = <<Call("authenticate_user", 0), Speak("auth_success"),
                         Call("set_alarm", C24_Requested[1]), Speak("alarm_set")>>
       ELSE d.alarm = alarm_time

TimerStartTexts ==
    { <<"das", "minute", "timer", "lagao">>,
      <<"ek", "second", "timer", "lagao">> }

\* callback in ACTIVE on a timer-start utterance, d being the outcome of the
\* dispatch: _handle_timer calls start_timer(seconds), which runs up to its
\* join, and the session state is the one handle_active_command returns
HandleTimerStarted(d) ==
    /\ d.eff # <<>>
    /\ d.eff[1].op = "call" /\ d.eff[1].arg = "start_timer"
    /\ IF is_alive(timer_thread)
       THEN /\ timer_events' = timer_events \cup {timer_cancel_event}
            /\ fg' = [pc |-> "start_join", seconds |-> d.eff[1].n,
                      since |-> clock]
       ELSE /\ timer_events' = timer_events
            /\ fg' = [pc |-> "start_create", seconds |-> d.eff[1].n,
                      since |-> clock]
    /\ answer' = NoAnswer
    /\ state' = d.state
    /\ effects' = d.eff
    /\ UNCHANGED <<assistant_ctx, pin_audio_buffer, alarm_time, auth,
                   recorders, call>>
    /\ UNCHANGED <<timer_workers, timer_thread, timer_cancel_event,
                   timer_state, clock>>
    /\ UNCHANGED <<noticeVars, alarmVars, routeVars, lockVars>>

HandleTimerStart ==
    /\ fg.pc = "idle"
    /\ state = "ACTIVE"
    /\ Len(timer_workers) < MaxTimers
    /\ \E text \in TimerStartTexts :
          HandleTimerStarted(
              dispatch(text, 4000, QuietEnv,
                       [timer_alive |-> is_alive(timer_thread),
                        notice_alive |-> FALSE, clock_delay |-> 1800]))

\* is_running(): "_timer_thread is not None and _timer_thread.is_alive()"
IsRunning ==
    /\ fg.pc = "idle"
    /\ answer' = [op |-> "is_running", by |-> timer_thread,
                  value |-> IF is_alive(timer_thread) THEN 1 ELSE 0]
    /\ UNCHANGED <<timer_workers, timer_events, timer_thread,
                   timer_cancel_event, timer_state, fg, clock>>
    /\ UNCHANGED notTimerVars

NextTimerFlow ==
    \/ HandleTimerStart
    \/ JoinReturns
    \/ StartTimerCreate
    \/ CancelTimerCall
    \/ CancelTimerReturn
    \/ GetRemaining
    \/ IsRunning
    \/ TimerWorkerBegin
    \/ TimerWorkerCancelled
    \/ TimerWorkerExpires
    \/ TimerWorkerBeep
    \/ TimerWorkerFinish
    \/ TimerTick

SpecTimerFlow == InitTimer /\ [][NextTimerFlow]_vars

\* the newest timer was cancelled before it ran out, and its worker has ended
C25_CancelledPending ==
    /\ timer_thread # 0
    /\ timer_workers[timer_thread].pc = "done"
    /\ timer_workers[timer_thread].fired = 0

\* C25: the utterance that asks for a ten-minute timer keeps the session in
\* ACTIVE and calls start_timer(600); the worker that start_timer creates
\* gets the seconds of the call and publishes them as the duration, counted
\* from the time it began to wait; and when cancel_timer returns True for a
\* timer that had not run out, the worker has ended and the shared state is
\* cleared, so that from then on, until another timer is started,
\* is_running answers False and get_remaining answers None.
C25_TimerFlow ==
    /\ [](state = "ACTIVE")
    /\ [](\A sch \in SchedEnvs :
            dispatch(<<"das", "minute", "timer", "lagao">>, 4000, QuietEnv, sch)
              = Outcome("ACTIVE", assistant_ctx, alarm_time,
                        <<Call("start_timer", 600), Speak("timer_started")>>))
    /\ [][StartTimerCreate =>
            /\ timer_workers'[timer_thread'].seconds = fg.seconds
            /\ is_alive(timer_thread)']_vars
    /\ [](\A w \in DOMAIN timer_workers :
            (timer_workers[w].pc = "waiting" /\ timer_state.by = w) =>
                /\ timer_state.duration = timer_workers[w].seconds
                /\ timer_state.start = timer_workers[w].since)
    /\ [][(CancelTimerReturn /\ timer_workers[timer_thread].fired = 0) =>
            /\ answer'.value = 1
            /\ C25_CancelledPending]_vars
    /\ [](C25_CancelledPending => timer_state = NoTimer)
    /\ [][(IsRunning /\ C25_CancelledPending) => answer'.value = 0]_vars
    /\ [][(GetRemaining /\ C25_CancelledPending) => answer'.value = -1]_vars

\* a ten-minute timer was started by the utterance, cancelled a second
\* later, and get_remaining answered None
C25_Witness ==
    /\ C25_CancelledPending
    /\ timer_workers[timer_thread].seconds = 600
    /\ effects = <<Call("start_timer", 600), Speak("timer_started")>>
    /\ clock > 0
    /\ answer = [op |-> "get_remaining", by |-> 0, value |-> -1]

\* ---------------------------------------------------------------------------
\* Cancellation against expiry (SpecNotice)

\* C26: once cancel_notice has returned True, the worker it cancelled does
\* not go on to its completion action: a worker that was past its wait when
\* the cancel came does not play the clip after the return.
C26_NoCompletionAfterCancel ==
    [][(/\ answer.op = "cancel_notice" /\ answer.value = 1
        /\ notice_workers[answer.by].pc = "announce")
        => notice_workers'[answer.by].pc = "announce"]_vars

\* ---------------------------------------------------------------------------
\* The due time of the newest timer (SpecTimer)

\* C27: while the newest timer is pending (its worker waits and its
\* cancellation event is not set), the shared start time and duration are
\* the ones this worker wrote: no earlier worker clears or overwrites them,
\* and get_remaining does not answer None.
C27_DueTimeStaysWhilePending ==
    \A w \in DOMAIN timer_workers :
        (/\ w = timer_thread
         /\ timer_workers[w].pc = "waiting"
         /\ timer_workers[w].cancel_ev \notin timer_events)
        => (/\ timer_state.by = w
            /\ timer_state.start # -1
            /\ timer_state.duration = timer_workers[w].seconds)

\* ---------------------------------------------------------------------------
\* An alarm set while the checker rings (SpecAlarm)

\* C28: an alarm time that set_alarm stored, and that has not rung since, is
\* taken away by cancel_alarm only: the checker's clearing at the end of a
\* ringing does not remove a time that was set after that ringing began.
C28_SetAlarmStaysUntilRungOrCancelled ==
    [][(/\ alarm_time # <<>>
        /\ alarm_log.set_since_ring
        /\ alarm_time' = <<>>) => CancelAlarm]_vars

\* ---------------------------------------------------------------------------
\* The alarm checker runs (SpecAlarmLive)
\*
\* The AlarmChecker thread is started at program start and loops for as
\* long as the program runs, and time passes: its polls and the end of its
\* ringing are eventually taken.  Nothing obliges the user to set, cancel or
\* query an alarm.
SpecAlarmLive ==
    /\ InitAlarm
    /\ [][NextAlarm]_vars
    /\ WF_vars(AlarmCheckerPoll)
    /\ WF_vars(AlarmCheckerRung)
    /\ WF_vars(AlarmTick)

\* the checker will poll during the minute t before the horizon ends
C29_PollsInTargetMinute(t) ==
    \E now \in clock..MaxAlarmNow :
        /\ now >= alarm_checker.wake
        /\ wall_clock(now) = t

\* the alarm stored for the minute t rings, is cancelled, or is replaced
C29_Settled(t) ==
    \/ /\ alarm_checker.pc = "ringing"
       /\ ~alarm_log.set_since_ring
       /\ alarm_time = t
    \/ answer.op = "cancel_alarm"
    \/ alarm_time \notin {t, <<>>}

C30_Capturing ==
    {r \in DOMAIN notice_recorders : notice_recorders[r].pc = "recording"}

\* the NoticeRecorder threads that are inside schedule_notice
C30_Scheduling ==
    {r \in DOMAIN notice_recorders :
        notice_recorders[r].pc \in {"join", "set", "create"}}

\* C30: at most one NoticeRecorder thread captures audio at any time, and
\* at most one thread is inside schedule_notice at any time.
C30_OneCaptureOneScheduler ==
    /\ Cardinality(C30_Capturing) <= 1
    /\ Cardinality(C30_Scheduling) <= 1

\* ---------------------------------------------------------------------------
\* The request behind the PIN prompt (Spec)

\* d is the outcome of a dispatch that opens the PIN prompt for text
C31_OpensPrompt(text, d) ==
    /\ d.state = "AWAITING_PIN"
    /\ d.ctx = assistant_ctx'
    /\ assistant_ctx'.pending_alarm_text = text
    /\ assistant_ctx'.pin_prompt_time = clock

\* C31: every step that opens the PIN prompt stores the utterance it handles
\* and the current time, whatever an earlier prompt left behind; while the
\* prompt is open neither is changed; an alarm is set only by a PIN attempt
\* made within PIN_PROMPT_TIMEOUT seconds of that time, and its time is
\* parsed from that utterance; and the attempt is answered with the timeout
\* message exactly when more than PIN_PROMPT_TIMEOUT seconds have passed
\* since that time.
C31_AlarmFromLatestPrompt ==
    /\ [][(state # "AWAITING_PIN" /\ state' = "AWAITING_PIN") =>
            \E text \in Utterances, sch \in SchedHeard :
                C31_OpensPrompt(text, dispatch(text, 4000, QuietEnv, sch))]_vars
    /\ [][(state = "AWAITING_PIN" /\ state' = "AWAITING_PIN") =>
            UNCHANGED assistant_ctx]_vars
    /\ [][(Callback /\ \E i \in DOMAIN effects' : effects'[i].arg = "set_alarm") =>
            /\ state = "AWAITING_PIN"
            /\ clock - assistant_ctx.pin_prompt_time <= PIN_PROMPT_TIMEOUT
            /\ alarm_time' = extract_alarm_intent(assistant_ctx.pending_alarm_text)
            /\ alarm_time' # <<>>]_vars
    /\ [][(state = "AWAITING_PIN" /\ Callback) =>
            ((effects' = <<Speak("timeout")>>)
                <=> (clock - assistant_ctx.pin_prompt_time > PIN_PROMPT_TIMEOUT))]_vars

\* a prompt opened after time had passed, later than any prompt that could
\* have timed out before it, has led to the alarm of its own utterance
C31_Witness ==
    /\ state = "ACTIVE"
    /\ assistant_ctx.pin_prompt_time > PIN_PROMPT_TIMEOUT
    /\ assistant_ctx.pending_alarm_text = <<>>
    /\ alarm_time = <<7, 0>>
    /\ \E i \in DOMAIN effects : effects[i].arg = "set_alarm"

\* ---------------------------------------------------------------------------
\* What the PIN audio buffer holds (Spec)

\* C32: outside AWAITING_PIN the PIN audio buffer is empty, so it is empty
\* when a PIN prompt begins; while the prompt lasts a step either leaves it
\* alone or appends the one block of its callback; and the audio that a
\* dispatch in AWAITING_PIN hands on is the buffered blocks and the block
\* of the callback itself, never an empty array, so that the Auth Gate
\* checks the voice on the audio it is given.
C32_BufferHoldsCurrentPromptOnly ==
    /\ [](state # "AWAITING_PIN" => pin_audio_buffer = <<>>)
    /\ [][(state # "AWAITING_PIN" /\ state' = "AWAITING_PIN") =>
            pin_audio_buffer' = <<>>]_vars
    /\ [][(state = "AWAITING_PIN" /\ state' = "AWAITING_PIN") =>
            \/ pin_audio_buffer' = pin_audio_buffer
            \/ \E block \in BlockSizes :
                  pin_audio_buffer' = Append(pin_audio_buffer, block)]_vars
    /\ [](state = "AWAITING_PIN" =>
            \A block \in BlockSizes :
                /\ get_pin_audio(Appended(block)) >= block
                /\ get_pin_audio(Appended(block)) > 0)
    /\ []((auth # <<>> /\ auth[1].pin_ok) =>
            /\ auth[1].calls[2] = "verify_voice_from_audio"
            /\ \A i \in DOMAIN auth[1].calls : auth[1].calls[i] # "verify_voice")

\* a PIN attempt was handed audio: the voice check was called on it, on a
\* machine without the MFCC library, and the buffer is empty again
C32_Witness ==
    /\ state = "ACTIVE"
    /\ pin_audio_buffer = <<>>
    /\ auth # <<>>
    /\ auth[1].calls = <<"verify_pin", "verify_voice_from_audio">>

\* ---------------------------------------------------------------------------
\* Session transitions and the schedulers (Spec)

\* what the four session transitions speak
C33_TransitionReplies ==
    { <<Speak("farewell")>>, <<Speak("greeting")>>, <<Speak("timeout")>>,
      <<Speak("alarm_cancel")>> }

\* the outcome of the dispatch in the current state for each of the four:
\* the reply alone, the context and the alarm as they are, no thread started
C33_OnlySpeaks(d, next_state, reply) ==
    d = Outcome(next_state, assistant_ctx, alarm_time, <<Speak(reply)>>)

\* C33: the exit phrase in ACTIVE, the wake phrase in SLEEPING, and in
\* AWAITING_PIN an utterance after the timeout or the exit phrase before it
\* change the session state and speak, and nothing else: the alarm time, the
\* recorder threads and the timer and notice schedulers are left as they
\* are and no scheduler is called.  What is pending goes on while the
\* session sleeps: the alarm checker can ring a stored alarm and a recorder
\* thread can run to its end in SLEEPING.
C33_TransitionsLeaveSchedulersAlone ==
    /\ [](state = "ACTIVE" =>
            \A sch \in SchedHeard :
                C33_OnlySpeaks(dispatch(<<"dhanyavaad">>, 4000, QuietEnv, sch),
                               "SLEEPING", "farewell"))
    /\ [](state = "SLEEPING" =>
            \A sch \in SchedHeard :
                C33_OnlySpeaks(dispatch(<<"namaste">>, 4000, QuietEnv, sch),
                               "ACTIVE", "greeting"))
    /\ [](state = "AWAITING_PIN" =>
            \A text \in Utterances \ {<<>>}, block \in BlockSizes,
               env \in VoiceEnvs, sch \in SchedHeard :
                /\ pin_prompt_expired(assistant_ctx, clock) =>
                      C33_OnlySpeaks(
                          dispatch(text, get_pin_audio(Appended(block)), env, sch),
                          "ACTIVE", "timeout")
                /\ (~pin_prompt_expired(assistant_ctx, clock)
                    /\ Has(text, EXIT_WORD)) =>
                      C33_OnlySpeaks(
                          dispatch(text, get_pin_audio(Appended(block)), env, sch),
                          "ACTIVE", "alarm_cancel"))
    /\ [][(Callback /\ effects' \in C33_TransitionReplies) =>
            /\ state' # state
            /\ UNCHANGED <<assistant_ctx, alarm_time, recorders>>
            /\ UNCHANGED backgroundVars]_vars
    /\ []((state = "SLEEPING" /\ alarm_time # <<>>) => ENABLED AlarmCheckerRing)
    /\ []((state = "SLEEPING" /\ recorders # <<>>) => ENABLED NoticeRecorderDone)

\* the session was sent to sleep with an alarm stored and a recorder running
C33_Witness ==
    /\ state = "SLEEPING"
    /\ effects = <<Speak("farewell")>>
    /\ alarm_time # <<>>
    /\ recorders # <<>>

\* ---------------------------------------------------------------------------
\* No second microphone capture during authentication (Spec)

\* the functions of utils/auth/voice_auth.py that record from the microphone
C34_Recording == {"verify_voice", "_record_audio"}

C34_NoCapture(a) ==
    \A i \in DOMAIN a : \A j \in DOMAIN a[i].calls :
        a[i].calls[j] \notin C34_Recording

\* C34: the array the callback hands to handle_pin_input is the whole of
\* the PIN audio buffer, the block of the completing callback included,
\* and whatever is said and whatever the voice check meets, the
\* authentication handle_pin_input runs on it reaches neither verify_voice
\* nor _record_audio; the same holds of every authentication that has run.
C34_VoiceCheckUsesBufferedAudio ==
    /\ C34_NoCapture(auth)
    /\ state = "AWAITING_PIN" =>
          \A text \in Utterances \ {<<>>}, block \in BlockSizes,
             env \in VoiceEnvs :
              /\ get_pin_audio(Appended(block))
                    = SumSeq(pin_audio_buffer) + block
              /\ C34_NoCapture(
                    handle_pin_input(text, get_pin_audio(Appended(block)),
                                     assistant_ctx, alarm_time, clock, env).auth)

\* a PIN was accepted and the voice was compared with the enrolled profile
C34_Witness ==
    /\ auth # <<>>
    /\ auth[1].calls = <<"verify_pin", "verify_voice_from_audio",
                         "load_voice_profile", "_extract_mfcc",
                         "_cosine_similarity">>

\* ---------------------------------------------------------------------------
\* The calls of the conversation thread return (SpecTimerStuck)
\*
\* As SpecTimerLive, but nothing is assumed of _beep(): a worker that has
\* reached it may stay in it for ever (the sound device does not answer).
\* The other steps of the threads are taken, and time passes.
SpecTimerStuck ==
    /\ InitTimer
    /\ [][NextTimer]_vars
    /\ WF_vars(JoinReturns)
    /\ WF_vars(StartTimerCreate)
    /\ WF_vars(CancelTimerReturn)
    /\ WF_vars(TimerWorkerBegin)
    /\ WF_vars(TimerWorkerCancelled)
    /\ WF_vars(TimerWorkerExpires)
    /\ WF_vars(TimerWorkerFinish)
    /\ WF_vars(TimerTick)

C35_InCall == fg.pc # "idle"

C35_Joining == fg.pc \in {"start_join", "cancel_join"}

C36_EventOf(r) == r

\* every worker holds the Event its own schedule_notice call created
C36_OwnEvent ==
    \A w \in DOMAIN notice_workers :
        notice_workers[w].cancel_ev = C36_EventOf(notice_workers[w].file)

\* no Event is held by two workers
C36_NotShared ==
    \A v, w \in DOMAIN notice_workers :
        notice_workers[v].cancel_ev = notice_workers[w].cancel_ev => v = w

\* a set() meant for the live thread sets the Event of that thread's worker
C36_SetHitsItsWorker ==
    notice_events' # notice_events =>
        notice_events' \ notice_events
            = {notice_workers[notice_thread].cancel_ev}

\* C36: every NoticeWorker waits on the Event that the schedule_notice call
\* which started it created, no Event is shared by two workers, and a
\* set() that schedule_notice or cancel_notice performs after finding the
\* thread alive sets the Event of that thread and of no later worker.
C36_FreshEventPerGeneration ==
    /\ []C36_OwnEvent
    /\ []C36_NotShared
    /\ [][C36_SetHitsItsWorker]_vars

\* ---------------------------------------------------------------------------
\* The locks of the three schedulers (SpecLocks)
\*
\* Every function of utils/timer_thread.py, utils/notice_thread.py and
\* utils/alarm_thread.py that a thread runs, as the sequence of what it does
\* to its module's _lock and to the fields the lock guards, and of the calls
\* in which it waits for something outside the program.  A step is
\*   acquire / release : entry and exit of a "with _lock:" block,
\*   read / write      : a use of or an assignment to a guarded field,
\*   block             : a call that returns when time has passed, a sound
\*                       has played, a thread has ended or an Event is set.
\* After a step the thread goes on with the next one; a step with alt > 0
\* may go on at step alt instead (the branch of an "if"), and a step with
\* ret returns from the function.
Acq(o) == [kind |-> "acquire", owner |-> o, what |-> "_lock", alt |-> 0, ret |-> FALSE]

Rel(o) == [kind |-> "release", owner |-> o, what |-> "_lock", alt |-> 0, ret |-> FALSE]

Rd(o, field) == [kind |-> "read", owner |-> o, what |-> field, alt |-> 0, ret |-> FALSE]

Wr(o, field) == [kind |-> "write", owner |-> o, what |-> field, alt |-> 0, ret |-> FALSE]

Blk(callee) == [kind |-> "block", owner |-> "none", what |-> callee, alt |-> 0, ret |-> FALSE]

OrAt(step, k) == [step EXCEPT !.alt = k]

Return(step) == [step EXCEPT !.ret = TRUE]

\* the fields each _lock guards
Fields ==
    [timer  |-> {"_start_time", "_duration"},
     notice |-> {"_notice_eta", "_notice_file", "_notice_label"},
     alarm  |-> {"_alarm_time"}]

TimerProgram_status_reads_unlocked(op) ==
    CASE op = "_timer_worker" ->
           << Acq("timer"), Wr("timer", "_start_time"),
              Wr("timer", "_duration"), Rel("timer"),
              OrAt(Blk("cancel_ev.wait"), 10),
              Acq("timer"), Wr("timer", "_start_time"),
              Wr("timer", "_duration"), Return(Rel("timer")),
              Blk("_beep"), Blk("_speak"),
              Acq("timer"), Wr("timer", "_start_time"),
              Wr("timer", "_duration"), Rel("timer") >>
      [] op = "start_timer" -> << Blk("join") >>
      [] op = "cancel_timer" ->
           << Blk("join"), Acq("timer"), Rd("timer", "_start_time"),
              Rel("timer") >>
      [] op = "get_remaining" ->
           << Acq("timer"), Rd("timer", "_start_time"), Rel("timer"),
              Rd("timer", "_duration"), Rd("timer", "_start_time"),
              Rd("timer", "_duration") >>
      [] OTHER -> << >>

\* utils/timer_thread.py.  _timer_worker: the cancelled branch (steps 6-9)
\* returns, the other one beeps and speaks first.  start_timer and
\* cancel_timer are taken with a live thread, so with their join.
\* get_remaining goes to the end of its block when a field is None.
TimerProgram(op) ==
    CASE op = "_timer_worker" ->
           << Acq("timer"), Wr("timer", "_start_time"),
              Wr("timer", "_duration"), Rel("timer"),
              OrAt(Blk("cancel_ev.wait"), 10),
              Acq("timer"), Wr("timer", "_start_time"),
              Wr("timer", "_duration"), Return(Rel("timer")),
              Blk("_beep"), Blk("_speak"),
              Acq("timer"), Wr("timer", "_start_time"),
              Wr("timer", "_duration"), Rel("timer") >>
      [] op = "start_timer" -> << Blk("join") >>
      [] op = "cancel_timer" ->
           << Blk("join"), Acq("timer"), Rd("timer", "_start_time"),
              Rel("timer") >>
      [] op = "get_remaining" ->
           << Acq("timer"), OrAt(Rd("timer", "_start_time"), 6),
              OrAt(Rd("timer", "_duration"), 6),
              Rd("timer", "_start_time"), Rd("timer", "_duration"),
              Rel("timer") >>
      [] OTHER -> << >>

\* utils/notice_thread.py.  _notice_worker returns after the lock block when
\* it was cancelled; otherwise the chime, the two pauses and the playback.
NoticeProgram(op) ==
    CASE op = "_notice_worker" ->
           << Blk("cancel_ev.wait"),
              Acq("notice"), Wr("notice", "_notice_eta"),
              Wr("notice", "_notice_file"), Wr("notice", "_notice_label"),
              OrAt(Rel("notice"), 11),
              Blk("play_notification_sound"), Blk("time.sleep"),
              Blk("time.sleep"), Blk("_play_wav") >>
      [] op = "schedule_notice" ->
           << Blk("join"),
              Acq("notice"), Wr("notice", "_notice_file"),
              Wr("notice", "_notice_eta"), Wr("notice", "_notice_label"),
              Rel("notice") >>
      [] op = "cancel_notice" -> << Blk("join") >>
      [] op = "get_notice_status" ->
           << Acq("notice"), Rd("notice", "_notice_eta"),
              Rd("notice", "_notice_label"), Rel("notice") >>
      [] OTHER -> << >>

\* utils/alarm_thread.py.  _alarm_checker is one turn of its loop: with no
\* target, or in another minute, it goes to the sleep at once.
AlarmProgram(op) ==
    CASE op = "_alarm_checker" ->
           << Acq("alarm"), Rd("alarm", "_alarm_time"),
              OrAt(Rel("alarm"), 9),
              Blk("play_alarm_sound"), Blk("speak"),
              Acq("alarm"), Wr("alarm", "_alarm_time"), Rel("alarm"),
              Blk("time.sleep") >>
      [] op = "set_alarm" ->
           << Acq("alarm"), Wr("alarm", "_alarm_time"), Rel("alarm"),
              Blk("speak") >>
      [] op = "cancel_alarm" ->
           << Acq("alarm"), Wr("alarm", "_alarm_time"), Rel("alarm"),
              Blk("speak") >>
      [] op = "get_alarm" ->
           << Acq("alarm"), Rd("alarm", "_alarm_time"), Rel("alarm") >>
      [] OTHER -> << >>

\* the function called op, in whichever of the three modules defines it
Program(op) == TimerProgram(op) \o NoticeProgram(op) \o AlarmProgram(op)

\* which thread runs which function: the handlers call the API on the
\* conversation thread, except schedule_notice, which _record_and_schedule
\* calls on a NoticeRecorder thread
Runs ==
    [conversation   |-> {"start_timer", "cancel_timer", "get_remaining",
                         "cancel_notice", "get_notice_status",
                         "set_alarm", "cancel_alarm", "get_alarm"},
     TimerWorker    |-> {"_timer_worker"},
     NoticeRecorder |-> {"schedule_notice"},
     NoticeWorker   |-> {"_notice_worker"},
     AlarmChecker   |-> {"_alarm_checker"}]

notLockVars == <<state, assistant_ctx, pin_audio_buffer, alarm_time, clock,
                 effects, auth, recorders, call, timerVars, noticeVars,
                 alarmVars, routeVars>>

Running(t) == locks.at[t].op # "idle"

\* the step thread t is at
StepOf(t) == Program(locks.at[t].op)[locks.at[t].i]

\* where t is after its step: returned, at the next step, or at the branch
After(t) ==
    LET here == locks.at[t]
        step == Program(here.op)[here.i]
        next == {here.i + 1} \cup (IF step.alt > 0 THEN {step.alt} ELSE {})
    IN  { IF step.ret \/ k > Len(Program(here.op))
          THEN [op |-> "idle", i |-> 0]
          ELSE [op |-> here.op, i |-> k] : k \in next }

\* a thread enters one of its functions
LockCall ==
    \E t \in Threads : \E op \in Runs[t] :
        /\ ~Running(t)
        /\ locks' = [locks EXCEPT !.at[t] = [op |-> op, i |-> 1]]
        /\ UNCHANGED notLockVars

\* "with _lock:" is entered: the lock is free and is taken
LockAcquire ==
    \E t \in Threads :
        /\ Running(t)
        /\ StepOf(t).kind = "acquire"
        /\ locks.held[StepOf(t).owner] = "free"
        /\ \E to \in After(t) :
              locks' = [locks EXCEPT !.held[StepOf(t).owner] = t, !.at[t] = to]
        /\ UNCHANGED notLockVars

\* a guarded field is read or assigned
LockAccess ==
    \E t \in Threads :
        /\ Running(t)
        /\ StepOf(t).kind \in {"read", "write"}
        /\ \E to \in After(t) : locks' = [locks EXCEPT !.at[t] = to]
        /\ UNCHANGED notLockVars

\* the "with _lock:" block is left
LockRelease ==
    \E t \in Threads :
        /\ Running(t)
        /\ StepOf(t).kind = "release"
        /\ \E to \in After(t) :
              locks' = [locks EXCEPT !.held[StepOf(t).owner] = "free",
                                     !.at[t] = to]
        /\ UNCHANGED notLockVars

\* the call the thread waited in returns
LockBlockingCallReturns ==
    \E t \in Threads :
        /\ Running(t)
        /\ StepOf(t).kind = "block"
        /\ \E to \in After(t) : locks' = [locks EXCEPT !.at[t] = to]
        /\ UNCHANGED notLockVars

NextLocks ==
    \/ LockCall
    \/ LockAcquire
    \/ LockAccess
    \/ LockRelease
    \/ LockBlockingCallReturns

SpecLocks == InitTimer /\ [][NextLocks]_vars

\* C37: a thread that is about to read or to write one of the shared
\* due-time fields holds the _lock of the module the field belongs to, and
\* a thread that is inside a blocking call holds no _lock.
C37_FieldsUnderLockNoLockWhileBlocking ==
    \A t \in Threads :
        Running(t) =>
            /\ StepOf(t).kind \in {"read", "write"} =>
                  /\ StepOf(t).what \in Fields[StepOf(t).owner]
                  /\ locks.held[StepOf(t).owner] = t
            /\ StepOf(t).kind = "block" =>
                  \A o \in Owners : locks.held[o] # t

\* the alarm checker is about to clear _alarm_time under the lock, set_alarm
\* on the conversation thread waits for that lock, and the timer worker is
\* inside _beep()
C37_Witness ==
    /\ locks.held["alarm"] = "AlarmChecker"
    /\ Running("AlarmChecker") /\ StepOf("AlarmChecker").kind = "write"
    /\ locks.at["conversation"] = [op |-> "set_alarm", i |-> 1]
    /\ Running("TimerWorker") /\ StepOf("TimerWorker").what = "_beep"

\* ---------------------------------------------------------------------------
\* The word-length gate (Spec)

\* every token of the utterance is shorter than ASR_MIN_WORD_LENGTH
C38_AllShort(text) ==
    /\ text # <<>>
    /\ \A i \in DOMAIN text : TokLen(text[i]) < ASR_MIN_WORD_LENGTH

\* the callback completes an utterance of short tokens only, which comes
\* without confidences, and hands it to the state machine
C38_ShortUtteranceDispatched ==
    /\ state = "AWAITING_PIN" => Len(pin_audio_buffer) < MaxBlocks
    /\ \E text \in Utterances :
          /\ C38_AllShort(text)
          /\ is_meaningful(<<>>, text, state # "AWAITING_PIN")
          /\ \E block \in BlocksHeard, env \in EnvsHeard, sch \in SchedHeard :
                Dispatched(dispatch(text, get_pin_audio(Appended(block)),
                                    env, sch))

\* C38: without confidences, _is_meaningful rejects an utterance exactly
\* when the length check is on and every token is shorter than the minimum.
\* In AWAITING_PIN the check is off: an utterance of short tokens only
\* passes and is handed to handle_pin_input.  In SLEEPING, ACTIVE and
\* RECORDING_NOTICE it is rejected whatever the confidences, and a callback
\* that drops an utterance changes neither the session state nor the
\* context, the alarm, the recorder threads or the schedulers, and speaks
\* and calls nothing.
C38_LengthGateOffInPinMode ==
    /\ [](\A text \in Utterances \ {<<>>}, check \in BOOLEAN :
            is_meaningful(<<>>, text, check) = ~(check /\ C38_AllShort(text)))
    /\ [](state = "AWAITING_PIN" =>
            \A text \in Utterances, block \in BlockSizes, env \in VoiceEnvs,
               sch \in SchedHeard :
                C38_AllShort(text) =>
                    /\ is_meaningful(<<>>, text, state # "AWAITING_PIN")
                    /\ dispatch(text, get_pin_audio(Appended(block)), env, sch)
                         = handle_pin_input(text, get_pin_audio(Appended(block)),
                                            assistant_ctx, alarm_time, clock,
                                            env))
    /\ [](state # "AWAITING_PIN" =>
            \A text \in Utterances, confs \in ConfSamples :
                C38_AllShort(text) =>
                    ~is_meaningful(confs, text, state # "AWAITING_PIN"))
    /\ [](state # "AWAITING_PIN" => ~ENABLED C38_ShortUtteranceDispatched)
    /\ [][CallbackDropped =>
            /\ effects' = <<>>
            /\ UNCHANGED <<state, assistant_ctx, alarm_time, recorders>>
            /\ UNCHANGED backgroundVars]_vars

\* the PIN prompt is open, audio of the utterance is buffered, and the
\* callback that completes an utterance of short tokens only dispatches it
C38_Witness ==
    /\ state = "AWAITING_PIN"
    /\ pin_audio_buffer # <<>>
    /\ ENABLED C38_ShortUtteranceDispatched

\* ---------------------------------------------------------------------------
\* The confidence gate (Spec)

\* per-word confidences in percent: none, one word, two words, below, at and
\* above the threshold
C39_Confs == { <<>>, <<64>>, <<65>>, <<30, 70>>, <<60, 70>>, <<100, 31>> }

\* the arithmetic mean of the confidences is below the threshold
C39_MeanBelow(confs) ==
    SumSeq(confs) \div Len(confs) < ASR_CONFIDENCE_THRESHOLD

\* what the filter says with the length check off
C39_GateRejects(confs) ==
    /\ confs # <<>>
    /\ ASR_CONFIDENCE_THRESHOLD > 0
    /\ C39_MeanBelow(confs)

C39_Gate ==
    /\ \A text \in Utterances \ {<<>>}, confs \in C39_Confs :
          /\ is_meaningful(confs, text, FALSE) = ~C39_GateRejects(confs)
          /\ C39_GateRejects(confs) => ~is_meaningful(confs, text, TRUE)
    /\ \A text \in Utterances \ {<<>>}, check \in BOOLEAN :
          ~is_meaningful(<<>>, text, check) => (check /\ C38_AllShort(text))

\* the callback completes an utterance that the confidence gate rejects
C39_RejectedForConfidence ==
    /\ CallbackDropped
    /\ \E text \in Utterances \ {<<>>}, confs \in ConfSamples :
          C39_GateRejects(confs)

\* the statement as the spec has it: a callback that drops an utterance
\* changes nothing at all, in any state
C39_RejectedChangesNothing ==
    /\ []C39_Gate
    /\ [][CallbackDropped =>
            /\ effects' = <<>>
            /\ UNCHANGED <<state, assistant_ctx, pin_audio_buffer, alarm_time,
                           recorders>>
            /\ UNCHANGED backgroundVars]_vars

\* C39: the confidence gate rejects exactly when confidences are present,
\* the threshold is above 0 and their mean is below it, in every state and
\* whatever the length check; without confidences only the length check
\* rejects.  A callback that drops an utterance leaves the session state,
\* the context, the alarm, the recorder threads and the schedulers as they
\* are and speaks and calls nothing; outside AWAITING_PIN the PIN audio
\* buffer stays as it is, and in AWAITING_PIN it has grown by the block of
\* that callback, as with every callback there.
C39_RejectedOnlyBuffersPinAudio ==
    /\ []C39_Gate
    /\ [][CallbackDropped =>
            /\ effects' = <<>>
            /\ UNCHANGED <<state, assistant_ctx, alarm_time, recorders>>
            /\ UNCHANGED backgroundVars
            /\ state # "AWAITING_PIN" => pin_audio_buffer' = pin_audio_buffer
            /\ state = "AWAITING_PIN" =>
                  \E block \in BlockSizes :
                      pin_audio_buffer' = Append(pin_audio_buffer, block)]_vars

\* the PIN prompt is open, audio is buffered, nothing was spoken by the last
\* callback, and a callback that rejects an utterance for its confidence
\* can follow
C39_Witness ==
    /\ state = "AWAITING_PIN"
    /\ pin_audio_buffer # <<>>
    /\ effects = <<>>
    /\ ENABLED C39_RejectedForConfidence

====
